---- MODULE Spec2Model ----
(***************************************************************************)
(* State-swap engine of kilroy-face-twitter.                               *)
(*                                                                         *)
(*   Observable / Loadable / Configurable   face/utils.py                  *)
(*   Parameter                              face/parameters.py             *)
(*   TwitterFaceState, TwitterFace          face/face.py                   *)
(*   TwitterController.watch_config         controller.py                  *)
(*   TwitterFace._fetch / scrap             face.py                        *)
(*   TimelineScraper.scrap                  scrapers.py                    *)
(*                                                                         *)
(* The program runs on one asyncio event loop.  A coroutine gives up the   *)
(* loop only at an await that really suspends; the model places these      *)
(* suspension points at                                                    *)
(*   - the overridable coroutine hooks of the abstract classes             *)
(*     (_copy_state, _destroy_state, Parameter._get / _set),               *)
(*   - the calls of the network client (get_tweet, create_tweet, get_me,   *)
(*     get_home_timeline),                                                 *)
(*   - Queue.get on an empty queue and the yield of an async generator.    *)
(* Queue.put on the unbounded Queue() of Observable never suspends, so     *)
(* _notify and _set_ready are atomic.  One action is the code that runs    *)
(* between two suspension points.                                          *)
(***************************************************************************)
EXTENDS Integers, Sequences, FiniteSets, TLC

\* ------------------------------------------------------------------ bounds
MaxCalls == 2     \* set_config calls issued during a run
MaxReaders == 2   \* post / score / scrap calls issued during a run
MaxSeqCalls == 1  \* set_config calls issued while post / score / scrap run
MaxSubs == 2      \* watch_ready / watch_config subscriptions
MaxPubs == 3      \* notifications published in the Observable model
MaxWatchers == 1  \* TwitterController.watch_config streams
MaxParOps == 3    \* Parameter.get / Parameter.set calls on one state
MaxUp == 3        \* tweets and page ends the timeline holds for one scrap
MaxThreads == 2   \* threads calling ToxicityModelLoader.get / release
MaxGets == 3      \* get calls issued by the threads altogether
MaxGrid == 4      \* modifier arguments are the multiples of 1 / MaxGrid in [0, 1]

Calls == 1..MaxCalls
Readers == 1..MaxReaders
Subs == 1..MaxSubs
Watchers == 1..MaxWatchers
Threads == 1..MaxThreads

\* --------------------------------------------------------------- constants
\* types.py: ScoringType, ScrapingType
ScoringTypes == {"likes", "retweets", "impressions"}
ScrapingTypes == {"timeline"}
\* FaceConfig.default_scoring_type / default_scraping_type
DefaultScoringType == "likes"
DefaultScrapingType == "timeline"
\* topics of Observable used by Loadable and Configurable
Topics == {"ready", "config"}
\* TwitterFace._parameters, in the order of the list
ParameterNames == <<"processor", "scorer", "scraper">>

VARIABLES
  ready,      \* Loadable.__ready
  built,      \* TRUE once Loadable.__ainit__ has returned
  cur,        \* Loadable.__state: index into heap (0: not yet assigned)
  heap,       \* the TwitterFaceState objects ever created, by identity
  destroyed,  \* identities handed to _destroy_state
  queues,     \* Observable._queues: topic -> (queue id -> queue content)
  pub,        \* history: per topic, the messages handed to _notify
  scPc,       \* set_config call: position
  scTodo,     \* set_config call: the items of config, in order
  scDone,     \* set_config call: number of items already applied
  scSrc,      \* set_config call: state passed to _copy_state
  scStaged,   \* set_config call: the copy (0: none)
  scOld,      \* set_config call: old_state of _loading (0: none)
  scCfg,      \* set_config call: values collected by the trailing get_config
  scErr,      \* set_config call: error raised to the caller
  scTrace,    \* history: steps of the call in execution order
  rdPc,       \* post/score/scrap call: position
  rdKind,     \* post/score/scrap call: which operation
  rdSnap,     \* state read by the first part of the operation
  rdUse,      \* state read by the part after the fetch (score)
  rdErr,      \* error raised to the caller
  rdCalls,    \* number of client calls issued by the operation
  subPc,      \* subscription: position of the _subscribe generator
  subTopic,   \* subscription: topic
  subFrom,    \* history: Len(pub[topic]) when the queue was registered
  received,   \* history: messages yielded to the consumer
  wPc,        \* controller watch_config: position
  wOld,       \* controller watch_config: the local variable old
  wNotes,     \* history: the ConfigNotification pairs yielded
  wFrom,      \* history: Len(pub["config"]) when the queue was registered
  wAtSub,     \* history: config of the current state at that moment
  pState,     \* the TwitterFaceState handed to Parameter.get / set
  pLog,       \* history: the Parameter.get / set calls and their outcomes
  skUp,       \* scrap: what the home timeline holds, page after page
  skLimit,    \* scrap: the argument limit
  skPc,       \* scrap: position of the pipeline
  skPos,      \* scrap: index in skUp of the tweet or page end last reached
  skLock,     \* scrap: the read access of self.state.read_lock() is held
  skMe,       \* history: number of get_me requests
  skReqs,     \* history: pagination tokens of the get_home_timeline requests
  skBefore,   \* scrap: the argument before (NoTime: None)
  skAfter,    \* scrap: the argument after (NoTime: None)
  skParams,   \* scrap: the dict params of TimelineScraper.scrap
  skCalls,    \* history: the keyword arguments of the get_home_timeline requests
  skOut,      \* history: ids of the items yielded to the consumer
  skSkipped,  \* history: ids of the tweets dropped by the except clause
  skRaised,   \* history: the calls that raised, by site
  skErr,      \* scrap: exception propagated to the consumer
  skCancel,   \* history: where the pipeline was when the consumer stopped
  skScored,   \* history: the tweets for which scoring has returned
  poPc,       \* post: position of TwitterFace.post
  poRestr,    \* post: state.restriction (its threshold, or NoRestriction)
  poContent,  \* post: the argument content
  poData,     \* post: the PostData returned by processor.to_internal
  poVerdict,  \* history: what restriction.check returned
  poNet,      \* history: the client calls issued by the call, in order
  poErr,      \* post: exception raised to the caller
  tfLaw,      \* TweetFields: the expression being evaluated
  tfReg,      \* TweetFields: operands and results, by name
  tfStep,     \* TweetFields: number of additions evaluated
  tfLast,     \* history: operands and result of the last addition
  nfCfg,      \* fields: the active processor, scorer and score modifier
  nfOp,       \* fields: the operation called, score or scrap
  nfPc,       \* fields: position of the operation
  nfPlan,     \* fields: the needed_fields still to be added
  nfFields,   \* fields: the local variable fields (face.py, scrapers.py)
  nfReqs,     \* history: the requests issued, with their keyword arguments
  nfPage,     \* fields: number of tweets of the page not yet in _fetch
  nfOther,    \* history: the requests issued without the client
  sgCfg,      \* scoring: the active scorer and the state of the modifier
  sgOp,       \* scoring: the operation called, score or scrap
  sgPc,       \* scoring: position of the operation
  sgTweet,    \* scoring: the tweet at hand
  sgScore,    \* scoring: the local variable score
  sgLast,     \* history: the tweet and score just returned or yielded
  psParams,   \* persistence: the Params the face was constructed with
  psDir,      \* persistence: the content of the state directory
  psPc,       \* persistence: position of load_or_init
  psStage,    \* persistence: the step of _load_saved_state reached
  psDict,     \* persistence: the state_dict read from the descriptor
  psPart,     \* persistence: the components loaded so far
  psFace,     \* persistence: the composite state published as current
  psLog,      \* history: the loads and inits of this start, with outcome
  psSaved,    \* history: the composite state the directory was saved from
  psGen,      \* persistence: number of restarts so far
  mlModel,    \* loader: ToxicityModelLoader.model (0: None, else the load)
  mlCount,    \* loader: ToxicityModelLoader.reference_count
  mlLock,     \* loader: the thread holding ToxicityModelLoader.lock, or 0
  mlPc,       \* loader: position of each thread
  mlSeen,     \* loader: per thread, the result of its test of model
  mlHeld,     \* loader: per thread, the model its get returned (0: none)
  mlLoads,    \* history: number of models constructed
  mlGets,     \* history: number of get calls issued
  mdX,        \* modifier: the toxicity x, in units of 1 / MaxGrid
  mdThreshold, \* modifier: the threshold, in units of 1 / MaxGrid
  mdAlpha,    \* modifier: alpha, in units of 1 / MaxGrid
  mdPc,       \* modifier: position of the call
  mdOut,      \* modifier: the factor returned, as its place in [0, 1]
  rnPc,       \* run: the await at which run() is, or how it ended
  rnServer,   \* run: the state of server_task
  rnSignal,   \* run: SIGINT / SIGTERM has arrived and shutdown() has run
  rnCancelReq, \* run: the tasks on which cancel() was called while running
  rnDone,     \* run: the local done
  rnPending,  \* run: the tasks of pending the loop has not finished with
  rnSaved,    \* history: face.save(state_dir) has returned
  rnCleaned   \* history: face.cleanup() has returned

vars == <<ready, built, cur, heap, destroyed, queues, pub,
          scPc, scTodo, scDone, scSrc, scStaged, scOld, scCfg, scErr, scTrace,
          rdPc, rdKind, rdSnap, rdUse, rdErr, rdCalls,
          subPc, subTopic, subFrom, received,
          wPc, wOld, wNotes, wFrom, wAtSub,
          pState, pLog,
          skUp, skLimit, skPc, skPos, skLock, skMe, skReqs, skBefore, skAfter,
          skParams, skCalls, skOut, skSkipped,
          skRaised, skErr, skCancel, skScored,
          poPc, poRestr, poContent, poData, poVerdict, poNet, poErr,
          tfLaw, tfReg, tfStep, tfLast,
          nfCfg, nfOp, nfPc, nfPlan, nfFields, nfReqs, nfPage, nfOther,
          sgCfg, sgOp, sgPc, sgTweet, sgScore, sgLast,
          psParams, psDir, psPc, psStage, psDict, psPart, psFace, psLog,
          psSaved, psGen,
          mlModel, mlCount, mlLock, mlPc, mlSeen, mlHeld, mlLoads, mlGets,
          mdX, mdThreshold, mdAlpha, mdPc, mdOut,
          rnPc, rnServer, rnSignal, rnCancelReq, rnDone, rnPending, rnSaved,
          rnCleaned>>

faceVars == <<ready, built, cur, heap, destroyed>>
scVars == <<scPc, scTodo, scDone, scSrc, scStaged, scOld, scCfg, scErr,
           scTrace>>
rdVars == <<rdPc, rdKind, rdSnap, rdUse, rdErr, rdCalls>>
subVars == <<subPc, subTopic, subFrom, received>>
wVars == <<wPc, wOld, wNotes, wFrom, wAtSub>>
\* the variables of the components modelled further below
pVars == <<pState, pLog>>
skVars == <<skUp, skLimit, skPc, skPos, skLock, skMe, skReqs, skBefore,
           skAfter, skParams, skCalls, skOut,
           skSkipped, skRaised, skErr, skCancel, skScored>>
poVars == <<poPc, poRestr, poContent, poData, poVerdict, poNet, poErr>>
tfVars == <<tfLaw, tfReg, tfStep, tfLast>>
nfVars == <<nfCfg, nfOp, nfPc, nfPlan, nfFields, nfReqs, nfPage, nfOther>>
sgVars == <<sgCfg, sgOp, sgPc, sgTweet, sgScore, sgLast>>
psVars == <<psParams, psDir, psPc, psStage, psDict, psPart, psFace, psLog,
           psSaved, psGen>>
mlVars == <<mlModel, mlCount, mlLock, mlPc, mlSeen, mlHeld, mlLoads, mlGets>>
mdVars == <<mdX, mdThreshold, mdAlpha, mdPc, mdOut>>
rnVars == <<rnPc, rnServer, rnSignal, rnCancelReq, rnDone, rnPending,
           rnSaved, rnCleaned>>
lateVars == <<mlVars, mdVars, rnVars>>
hostVars == <<poVars, tfVars, nfVars, sgVars, psVars, lateVars>>
extVars == <<wVars, pVars, skVars, hostVars>>
coreVars == <<faceVars, queues, pub, scVars, rdVars, subVars, wVars, pVars,
              skVars>>

\* ------------------------------------------------------------- Observable
EmptyFn == [x \in {} |-> 0]

\* variant of _notify that drops the message for a queue that still holds an
\* unconsumed one (a slow consumer loses messages)
NotifyQueuesLossy(q, topic, msg) ==
  IF topic \in DOMAIN q
  THEN [q EXCEPT ![topic] = [i \in DOMAIN q[topic] |->
                               IF q[topic][i] = << >>
                               THEN Append(q[topic][i], msg)
                               ELSE q[topic][i]]]
  ELSE q

\* Observable._notify: put the message on every queue of the topic
NotifyQueues(q, topic, msg) ==
  IF topic \in DOMAIN q
  THEN [q EXCEPT ![topic] = [i \in DOMAIN q[topic] |-> Append(q[topic][i], msg)]]
  ELSE q

notify(topic, by, msg) ==
  /\ queues' = NotifyQueues(queues, topic, msg)
  /\ pub' = [pub EXCEPT ![topic] = Append(@, [by |-> by, msg |-> msg])]

\* ---------------------------------------------------------------- Loadable
\* Loadable._set_ready
set_ready(by, value) ==
  /\ ready' = value
  /\ notify("ready", by, value)

\* variant of the property _state that hands the state out unconditionally
NotReadyUnchecked == FALSE

\* the guard of the property Loadable._state
NotReady == ~ready

\* ------------------------------------------------ TwitterFaceState, values
\* TwitterFace._create_initial_state
\* scorers / scrapers: one component per type, each with its own config
InitialState ==
  [scoring_type |-> DefaultScoringType,
   scorers |-> [t \in ScoringTypes |-> {}],
   scraping_type |-> DefaultScrapingType,
   scrapers |-> [t \in ScrapingTypes |-> {}],
   client |-> 1]

\* variant of _copy_state that returns the state it was given (no copy)
copy_state_alias(id) == id

\* Loadable._copy_state: Deepcopyable.__adeepcopy__ copies every attribute
\* with copy.deepcopy, the client included; the copy is the new object id
copy_state(id) == Len(heap) + 1

CopiedHeap(src) ==
  Append(heap, [heap[src] EXCEPT !.client = Len(heap) + 1])

\* ----------------------------------------------------- Parameter, per name
\* A nested component (processor, scorer, scraper) has no parameters of its
\* own: its config is a JSON object, modelled as its set of keys; its
\* get_config returns {} and its set_config fails on the first key.
\* A parameter value is a record of the "type" entry and the "config" entry
\* of the JSON object; the value of "processor" is the nested config itself,
\* its type entry is NoType.
NoType == "-"

\* ProcessorParameter._get / ScorerParameter._get / ScraperParameter._get
\* state.scorer and state.scraper look the active type up in the maps built
\* by _create_initial_state and raise KeyError for any other type.
GetRaises(s, name) ==
  \/ name = "scorer" /\ s.scoring_type \notin ScoringTypes
  \/ name = "scraper" /\ s.scraping_type \notin ScrapingTypes

ParamGet(s, name) ==
  CASE name = "processor" -> [type |-> NoType, config |-> {}]
    [] name = "scorer" ->
         [type |-> s.scoring_type, config |-> s.scorers[s.scoring_type]]
    [] name = "scraper" ->
         [type |-> s.scraping_type, config |-> s.scrapers[s.scraping_type]]

\* errors.py: the AppError instances; any other name is an exception that
\* is not an AppError
AppErrors == {"parameter_get", "parameter_set", "not_ready", "invalid_config"}
NoValue == [type |-> NoType, config |-> {"-"}]

\* variant of the except clauses that lets every exception through as it is
SurfaceRaw(exc, wrapper) == [err |-> exc, cause |-> "none"]

\* the except clauses of Parameter.get / Parameter.set: an AppError is
\* raised again as it is, any other exception is replaced by the wrapper
\* raised "from" it.  cause is the exception attached by this raise.
Surface(exc, wrapper) ==
  IF exc = "none" \/ exc \in AppErrors
  THEN [err |-> exc, cause |-> "none"]
  ELSE [err |-> wrapper, cause |-> exc]

\* Parameter.get.  fault is the exception with which the get_config awaited
\* by _get ends ("none": it returns); the lookup of the active component
\* comes first.
ParameterGet(s, name, fault) ==
  LET exc == IF GetRaises(s, name) THEN "KeyError" ELSE fault
      e == Surface(exc, "parameter_get")
  IN [value |-> IF exc = "none" THEN ParamGet(s, name) ELSE NoValue,
      exc |-> exc, err |-> e.err, cause |-> e.cause]

\* variant of ScorerParameter._set / ScraperParameter._set that builds the
\* component of the type it leaves anew
UnderlyingSetRebuilding(s, name, value) ==
  CASE name = "processor" ->
         [state |-> s,
          exc |-> IF value.config # {} THEN "invalid_config" ELSE "none"]
    [] name = "scorer" ->
         [state |-> [s EXCEPT !.scoring_type = value.type,
                              !.scorers[s.scoring_type] = {"rebuilt"}],
          exc |-> IF value.type \notin ScoringTypes THEN "KeyError"
                  ELSE IF value.config # {} THEN "invalid_config"
                  ELSE "none"]
    [] name = "scraper" ->
         [state |-> [s EXCEPT !.scraping_type = value.type,
                              !.scrapers[s.scraping_type] = {"rebuilt"}],
          exc |-> IF value.type \notin ScrapingTypes THEN "KeyError"
                  ELSE IF value.config # {} THEN "invalid_config"
                  ELSE "none"]

\* variant of ScorerParameter._set / ScraperParameter._set in which the
\* lookup of the component of an unknown type does not raise
UnderlyingSetUnchecked(s, name, value) ==
  CASE name = "processor" ->
         [state |-> s,
          exc |-> IF value.config # {} THEN "invalid_config" ELSE "none"]
    [] name = "scorer" ->
         [state |-> [s EXCEPT !.scoring_type = value.type],
          exc |-> IF value.config # {} THEN "invalid_config" ELSE "none"]
    [] name = "scraper" ->
         [state |-> [s EXCEPT !.scraping_type = value.type],
          exc |-> IF value.config # {} THEN "invalid_config" ELSE "none"]

\* ProcessorParameter._set / ScorerParameter._set / ScraperParameter._set:
\* the state after the call and the exception it ends with.  The type is
\* assigned first; the lookup of the component of an unknown type raises
\* KeyError; the set_config of the component fails on the first key with
\* INVALID_CONFIG_ERROR and leaves the component as it was.
UnderlyingSet(s, name, value) ==
  CASE name = "processor" ->
         [state |-> s,
          exc |-> IF value.config # {} THEN "invalid_config" ELSE "none"]
    [] name = "scorer" ->
         [state |-> [s EXCEPT !.scoring_type = value.type],
          exc |-> IF value.type \notin ScoringTypes THEN "KeyError"
                  ELSE IF value.config # {} THEN "invalid_config"
                  ELSE "none"]
    [] name = "scraper" ->
         [state |-> [s EXCEPT !.scraping_type = value.type],
          exc |-> IF value.type \notin ScrapingTypes THEN "KeyError"
                  ELSE IF value.config # {} THEN "invalid_config"
                  ELSE "none"]

\* variant of Parameter.set without the comparison with the current value
ParameterSetAlways(s, name, value) ==
  IF name \notin {ParameterNames[i] : i \in 1..Len(ParameterNames)}
  THEN [state |-> s, raised |-> TRUE, err |-> "KeyError", cause |-> "none",
        invoked |-> FALSE]
  ELSE LET g == ParameterGet(s, name, "none")
           u == UnderlyingSet(s, name, value)
           e == Surface(u.exc, "parameter_set")
       IN IF g.err # "none"
          THEN [state |-> s, raised |-> TRUE, err |-> g.err,
                cause |-> g.cause, invoked |-> FALSE]
          ELSE [state |-> u.state, raised |-> u.exc # "none", err |-> e.err,
                cause |-> e.cause, invoked |-> TRUE]

\* Parameter.set, as called by set_config through params[name]: an unknown
\* name raises KeyError in set_config itself, a failing get raises its
\* error, an equal value returns without calling _set (invoked)
ParameterSet(s, name, value) ==
  IF name \notin {ParameterNames[i] : i \in 1..Len(ParameterNames)}
  THEN [state |-> s, raised |-> TRUE, err |-> "KeyError", cause |-> "none",
        invoked |-> FALSE]
  ELSE LET g == ParameterGet(s, name, "none")
           u == UnderlyingSet(s, name, value)
           e == Surface(u.exc, "parameter_set")
       IN IF g.err # "none"
          THEN [state |-> s, raised |-> TRUE, err |-> g.err,
                cause |-> g.cause, invoked |-> FALSE]
          ELSE IF g.value = value
          THEN [state |-> s, raised |-> FALSE, err |-> "none",
                cause |-> "none", invoked |-> FALSE]
          ELSE [state |-> u.state, raised |-> u.exc # "none", err |-> e.err,
                cause |-> e.cause, invoked |-> TRUE]

\* configs submitted to set_config: the items of the mapping in order
Item(name, value) == [name |-> name, value |-> value]
TypeValue(t, c) == [type |-> t, config |-> c]

Configs ==
  {<< >>}
  \cup {<<Item("scorer", TypeValue("impressions", {}))>>}
  \cup {<<Item("scorer", TypeValue("retweets", {"k"}))>>}
  \cup {<<Item("scorer", TypeValue("retweets", {})),
          Item("scraper", TypeValue("bogus", {}))>>}
  \cup {<<Item("nokey", TypeValue(NoType, {}))>>}

\* ------------------------------------------------------- Loadable.__ainit__
\* build(): cls() leaves ready False and no state; __ainit__ assigns the
\* initial state and publishes True
AInit ==
  /\ ~built
  /\ heap' = <<InitialState>>
  /\ cur' = 1
  /\ built' = TRUE
  /\ set_ready(0, TRUE)
  /\ UNCHANGED <<destroyed, scVars, rdVars, subVars, extVars>>

\* ------------------------------------------------- Configurable.set_config
LoadingPcs == {"copying", "setting", "destroying"}

Trace(c, ev) == scTrace' = [scTrace EXCEPT ![c] = Append(@, ev)]

\* variant of the finally clause that sets the flag without _notify
LoadingFinallySilent(c) ==
  /\ ready' = TRUE
  /\ UNCHANGED <<queues, pub>>

\* variant of _loading without the finally clause
LoadingFinallySkipped(c) == UNCHANGED <<ready, queues, pub>>

\* the finally clause of Loadable._loading
LoadingFinally(c) == set_ready(c, TRUE)

\* set_config is called: _loading sets ready False and calls _copy_state
\* with the current state
LoadingEnter(c, config) ==
  /\ built
  /\ scPc[c] = "idle"
  /\ c > 1 => scPc[c - 1] # "idle"
  /\ set_ready(c, FALSE)
  /\ scSrc' = [scSrc EXCEPT ![c] = cur]
  /\ scTodo' = [scTodo EXCEPT ![c] = config]
  /\ scPc' = [scPc EXCEPT ![c] = "copying"]
  /\ Trace(c, "ready_false")
  /\ UNCHANGED <<built, cur, heap, destroyed, scDone, scStaged, scOld, scCfg, scErr,
                 rdVars, subVars, extVars>>

\* _copy_state returns the copy
CopyDone(c) ==
  /\ scPc[c] = "copying"
  /\ heap' = CopiedHeap(scSrc[c])
  /\ scStaged' = [scStaged EXCEPT ![c] = copy_state(scSrc[c])]
  /\ scPc' = [scPc EXCEPT ![c] = "setting"]
  /\ Trace(c, "copy")
  /\ UNCHANGED <<ready, built, cur, destroyed, queues, pub,
                 scTodo, scDone, scSrc, scOld, scCfg, scErr, rdVars, subVars,
                 extVars>>

\* _copy_state raises: the finally clause runs, the exception propagates
CopyFail(c) ==
  /\ scPc[c] = "copying"
  /\ LoadingFinally(c)
  /\ scPc' = [scPc EXCEPT ![c] = "failed"]
  /\ scErr' = [scErr EXCEPT ![c] = "copy_error"]
  /\ Trace(c, "ready_true")
  /\ UNCHANGED <<built, cur, heap, destroyed,
                 scTodo, scDone, scSrc, scStaged, scOld, scCfg, rdVars, subVars,
                 extVars>>

\* variant of the except clause of set_config that raises the exception of
\* the parameter again
ConfigErrorRaw(r) == r.err

\* the except clause of set_config: whatever params[name].set raised,
\* INVALID_CONFIG_ERROR is raised from it
ConfigError(r) == "invalid_config"

\* one iteration of the loop of set_config: params[name].set(state, value)
\* on the copy; on an exception INVALID_CONFIG_ERROR leaves _loading through
\* its finally clause
ParamStep(c) ==
  /\ scPc[c] = "setting"
  /\ scDone[c] < Len(scTodo[c])
  /\ LET item == scTodo[c][scDone[c] + 1]
         r == ParameterSet(heap[scStaged[c]], item.name, item.value)
     IN /\ heap' = [heap EXCEPT ![scStaged[c]] = r.state]
        /\ IF r.raised
           THEN /\ LoadingFinally(c)
                /\ scPc' = [scPc EXCEPT ![c] = "failed"]
                /\ scErr' = [scErr EXCEPT ![c] = ConfigError(r)]
                /\ Trace(c, "ready_true")
                /\ UNCHANGED scDone
           ELSE /\ scDone' = [scDone EXCEPT ![c] = @ + 1]
                /\ UNCHANGED <<ready, queues, pub, scPc, scErr, scTrace>>
  /\ UNCHANGED <<built, cur, destroyed, scTodo, scSrc, scStaged, scOld, scCfg,
                 rdVars, subVars, extVars>>

\* variant of the swap that waits until no post / score / scrap is running
\* (a writer lock that readers hold off)
SwapWhenDrained(c) ==
  /\ \A r \in DOMAIN rdPc : rdPc[r] \in {"idle", "done", "failed"}
  /\ scPc[c] = "setting"
  /\ scDone[c] = Len(scTodo[c])
  /\ cur' = scStaged[c]
  /\ scOld' = [scOld EXCEPT ![c] = cur]
  /\ scPc' = [scPc EXCEPT ![c] = "destroying"]
  /\ scTrace' = [scTrace EXCEPT ![c] = Append(@, "swap")]
  /\ UNCHANGED <<ready, built, heap, destroyed, queues, pub, scTodo, scDone,
                 scSrc, scStaged, scCfg, scErr, rdPc, rdKind, rdSnap, rdUse,
                 rdErr, rdCalls, subPc, subTopic, subFrom, received,
                 extVars>>

\* the body of the with statement has finished: the copy becomes the
\* current state and _destroy_state is called with the old one
Swap(c) ==
  /\ scPc[c] = "setting"
  /\ scDone[c] = Len(scTodo[c])
  /\ cur' = scStaged[c]
  /\ scOld' = [scOld EXCEPT ![c] = cur]
  /\ scPc' = [scPc EXCEPT ![c] = "destroying"]
  /\ Trace(c, "swap")
  /\ UNCHANGED <<ready, built, heap, destroyed, queues, pub,
                 scTodo, scDone, scSrc, scStaged, scCfg, scErr, rdVars, subVars,
                 extVars>>

\* Configurable.get_config reads self._state once per parameter; the values
\* collected so far are the prefix of ParameterNames
ConfigOf(s) == [i \in 1..Len(ParameterNames) |-> ParamGet(s, ParameterNames[i])]

\* _destroy_state(old_state) returns, the finally clause sets ready True;
\* set_config goes on into get_config, whose first reads of self._state
\* follow without a suspension
DestroyDone(c) ==
  /\ scPc[c] = "destroying"
  /\ destroyed' = destroyed \cup {scOld[c]}
  /\ LoadingFinally(c)
  /\ scTrace' = [scTrace EXCEPT ![c] = @ \o <<"destroy", "ready_true">>]
  /\ IF GetRaises(heap[cur], ParameterNames[1])
     THEN /\ scPc' = [scPc EXCEPT ![c] = "failed"]
          /\ scErr' = [scErr EXCEPT ![c] = "parameter_get"]
          /\ UNCHANGED scCfg
     ELSE /\ scPc' = [scPc EXCEPT ![c] = "getting"]
          /\ scCfg' = [scCfg EXCEPT ![c] = <<ParamGet(heap[cur], ParameterNames[1])>>]
          /\ UNCHANGED scErr
  /\ UNCHANGED <<built, cur, heap, scTodo, scDone, scSrc, scStaged, scOld,
                 rdVars, subVars, extVars>>

\* get_config: the next parameter.get(self._state)
GetStep(c) ==
  /\ scPc[c] = "getting"
  /\ Len(scCfg[c]) < Len(ParameterNames)
  /\ LET name == ParameterNames[Len(scCfg[c]) + 1]
     IN IF NotReady
        THEN /\ scPc' = [scPc EXCEPT ![c] = "failed"]
             /\ scErr' = [scErr EXCEPT ![c] = "not_ready"]
             /\ UNCHANGED scCfg
        ELSE IF GetRaises(heap[cur], name)
        THEN /\ scPc' = [scPc EXCEPT ![c] = "failed"]
             /\ scErr' = [scErr EXCEPT ![c] = "parameter_get"]
             /\ UNCHANGED scCfg
        ELSE /\ scCfg' = [scCfg EXCEPT ![c] = Append(@, ParamGet(heap[cur], name))]
             /\ UNCHANGED <<scPc, scErr>>
  /\ UNCHANGED <<faceVars, queues, pub, scTodo, scDone, scSrc, scStaged, scOld,
                 scTrace, rdVars, subVars, extVars>>

\* get_config has returned: _notify("config", config) and return
ConfigNotify(c) ==
  /\ scPc[c] = "getting"
  /\ Len(scCfg[c]) = Len(ParameterNames)
  /\ notify("config", c, scCfg[c])
  /\ scPc' = [scPc EXCEPT ![c] = "done"]
  /\ Trace(c, "config")
  /\ UNCHANGED <<faceVars, scTodo, scDone, scSrc, scStaged, scOld, scCfg, scErr,
                 rdVars, subVars, extVars>>

set_config(c) ==
  \/ \E config \in Configs : LoadingEnter(c, config)
  \/ CopyDone(c)
  \/ CopyFail(c)
  \/ ParamStep(c)
  \/ Swap(c)
  \/ DestroyDone(c)
  \/ GetStep(c)
  \/ ConfigNotify(c)

\* ------------------------------------------- TwitterFace.post / score / scrap
Kinds == {"post", "score", "scrap"}
FirstPc(kind) ==
  CASE kind = "post" -> "posting"
    [] kind = "score" -> "fetching"
    [] kind = "scrap" -> "scrap_me"

\* the call up to its first client call: post -> create_tweet, score ->
\* get_tweet, scrap (first item requested) -> get_me.  Every self._state read
\* on the way happens without a suspension in between.
ReaderCall(r, kind) ==
  /\ built
  /\ rdPc[r] = "idle"
  /\ r > 1 => rdPc[r - 1] # "idle"
  /\ rdKind' = [rdKind EXCEPT ![r] = kind]
  /\ IF NotReady
     THEN /\ rdPc' = [rdPc EXCEPT ![r] = "failed"]
          /\ rdErr' = [rdErr EXCEPT ![r] = "not_ready"]
          /\ UNCHANGED <<rdSnap, rdCalls>>
     ELSE /\ rdPc' = [rdPc EXCEPT ![r] = FirstPc(kind)]
          /\ rdSnap' = [rdSnap EXCEPT ![r] = cur]
          /\ rdCalls' = [rdCalls EXCEPT ![r] = 1]
          /\ UNCHANGED rdErr
  /\ UNCHANGED <<faceVars, queues, pub, scVars, rdUse, subVars, extVars>>

\* processor.post: create_tweet returns
PostDone(r) ==
  /\ rdPc[r] = "posting"
  /\ rdPc' = [rdPc EXCEPT ![r] = "done"]
  /\ UNCHANGED <<faceVars, queues, pub, scVars,
                 rdKind, rdSnap, rdUse, rdErr, rdCalls, subVars,
                 extVars>>

\* score: get_tweet returns; self._state.scorer.score(self._state.client, ..)
\* reads self._state again
ScoreResume(r) ==
  /\ rdPc[r] = "fetching"
  /\ IF NotReady
     THEN /\ rdPc' = [rdPc EXCEPT ![r] = "failed"]
          /\ rdErr' = [rdErr EXCEPT ![r] = "not_ready"]
          /\ UNCHANGED rdUse
     ELSE /\ rdPc' = [rdPc EXCEPT ![r] = "done"]
          /\ rdUse' = [rdUse EXCEPT ![r] = cur]
          /\ UNCHANGED rdErr
  /\ UNCHANGED <<faceVars, queues, pub, scVars,
                 rdKind, rdSnap, rdCalls, subVars, extVars>>

\* TimelineScraper.scrap: get_me returned, get_home_timeline is requested
ScrapPage(r) ==
  /\ rdPc[r] = "scrap_me"
  /\ rdPc' = [rdPc EXCEPT ![r] = "scrap_page"]
  /\ rdCalls' = [rdCalls EXCEPT ![r] = @ + 1]
  /\ UNCHANGED <<faceVars, queues, pub, scVars,
                 rdKind, rdSnap, rdUse, rdErr, subVars, extVars>>

\* the page arrives, fetch converts its tweet and scrap yields the post
ScrapYield(r) ==
  /\ rdPc[r] = "scrap_page"
  /\ rdPc' = [rdPc EXCEPT ![r] = "scrap_yield"]
  /\ UNCHANGED <<faceVars, queues, pub, scVars,
                 rdKind, rdSnap, rdUse, rdErr, rdCalls, subVars,
                 extVars>>

\* the consumer asks for the next item; the page (one tweet, no next_token)
\* is used up and the stream ends
ScrapNext(r) ==
  /\ rdPc[r] = "scrap_yield"
  /\ rdPc' = [rdPc EXCEPT ![r] = "done"]
  /\ UNCHANGED <<faceVars, queues, pub, scVars,
                 rdKind, rdSnap, rdUse, rdErr, rdCalls, subVars,
                 extVars>>

\* a client call raises: the exception propagates to the caller
UpstreamFail(r) ==
  /\ rdPc[r] \in {"posting", "fetching", "scrap_me", "scrap_page"}
  /\ rdPc' = [rdPc EXCEPT ![r] = "failed"]
  /\ rdErr' = [rdErr EXCEPT ![r] = "upstream"]
  /\ UNCHANGED <<faceVars, queues, pub, scVars,
                 rdKind, rdSnap, rdUse, rdCalls, subVars, extVars>>

reader(r) ==
  \/ \E kind \in Kinds : ReaderCall(r, kind)
  \/ PostDone(r)
  \/ ScoreResume(r)
  \/ ScrapPage(r)
  \/ ScrapYield(r)
  \/ ScrapNext(r)
  \/ UpstreamFail(r)

\* --------------------------------------------------------------------- Init
\* the face after cls(), no call issued
InitFace ==
  /\ ready = FALSE
  /\ built = FALSE
  /\ cur = 0
  /\ heap = << >>
  /\ destroyed = {}
  /\ queues = EmptyFn
  /\ pub = [t \in Topics |-> << >>]
  /\ scPc = [c \in Calls |-> "idle"]
  /\ scTodo = [c \in Calls |-> << >>]
  /\ scDone = [c \in Calls |-> 0]
  /\ scSrc = [c \in Calls |-> 0]
  /\ scStaged = [c \in Calls |-> 0]
  /\ scOld = [c \in Calls |-> 0]
  /\ scCfg = [c \in Calls |-> << >>]
  /\ scErr = [c \in Calls |-> "none"]
  /\ scTrace = [c \in Calls |-> << >>]
  /\ rdPc = [r \in Readers |-> "idle"]
  /\ rdKind = [r \in Readers |-> "none"]
  /\ rdSnap = [r \in Readers |-> 0]
  /\ rdUse = [r \in Readers |-> 0]
  /\ rdErr = [r \in Readers |-> "none"]
  /\ rdCalls = [r \in Readers |-> 0]
  /\ subPc = [s \in Subs |-> "idle"]
  /\ subTopic = [s \in Subs |-> "none"]
  /\ subFrom = [s \in Subs |-> 0]
  /\ received = [s \in Subs |-> << >>]
  /\ wPc = [w \in Watchers |-> "idle"]
  /\ wOld = [w \in Watchers |-> << >>]
  /\ wNotes = [w \in Watchers |-> << >>]
  /\ wFrom = [w \in Watchers |-> 0]
  /\ wAtSub = [w \in Watchers |-> << >>]

\* no Parameter call made on a state outside set_config
ParIdle ==
  /\ pState = InitialState
  /\ pLog = << >>

\* a dict as a set of <<key, value>> pairs
Has(pairs, k) == \E p \in pairs : p[1] = k
Get(pairs, k, default) ==
  IF Has(pairs, k) THEN (CHOOSE p \in pairs : p[1] = k)[2] ELSE default
Keys(pairs) == {p[1] : p \in pairs}

\* dict[k] = v
SetItem(pairs, k, v) == {p \in pairs : p[1] # k} \cup {<<k, v>>}

NoLimit == 0 - 1
NoToken == 0
\* before / after is None
NoTime == 0
NoCancel == [at |-> "none", reqs |-> 0, skipped |-> {}]

\* the scrap pipeline before scrap() is called, for a given timeline and limit
ScrapIdle(up, limit) ==
  /\ skUp = up
  /\ skLimit = limit
  /\ skPc = "idle"
  /\ skPos = 0
  /\ skLock = FALSE
  /\ skMe = 0
  /\ skReqs = << >>
  /\ skParams = {}
  /\ skCalls = << >>
  /\ skOut = << >>
  /\ skSkipped = {}
  /\ skRaised = {}
  /\ skErr = "none"
  /\ skCancel = NoCancel
  /\ skScored = {}

\* the time bounds scrap() is called with
ScrapBounds(before, after) ==
  /\ skBefore = before
  /\ skAfter = after

NoRestriction == 0 - 1
NoText == 0 - 1
NoData == [text |-> NoText, image |-> FALSE]

\* no post call issued
PostIdle ==
  /\ poPc = "idle"
  /\ poRestr = NoRestriction
  /\ poContent = NoData
  /\ poData = NoData
  /\ poVerdict = "none"
  /\ poNet = << >>
  /\ poErr = "none"

\* data.py: Optional[List[...]] is None or a list
None == {}
List(l) == {l}
\* data.py: the field groups of TweetFields
Groups == {"expansions", "media_fields", "place_fields", "poll_fields",
           "tweet_fields", "user_fields"}
\* TweetFields()
NoFields == [g \in Groups |-> None]
Registers == {"A", "B", "C", "T", "L", "R"}

\* no TweetFields expression under evaluation
FieldsIdle ==
  /\ tfLaw = "none"
  /\ tfReg = [r \in Registers |-> NoFields]
  /\ tfStep = 0
  /\ tfLast = << >>

NoModifier == "-"
\* the components of Params() and no score or scrap call issued
NeedsIdle(cfg) ==
  /\ nfCfg = cfg
  /\ nfOp = "none"
  /\ nfPc = "idle"
  /\ nfPlan = << >>
  /\ nfFields = NoFields
  /\ nfReqs = << >>
  /\ nfPage = 0
  /\ nfOther = {}

DefaultComponents ==
  [processor |-> "text", scorer |-> "relative-likes", modifier |-> NoModifier]

\* a metric the response does not carry (impression_count: None)
NoCount == 0 - 1
NoTweet == [likes |-> 0, retweets |-> 0, impressions |-> NoCount,
            followers |-> 0, toxicity |-> 0]
\* a float, as a fraction
Float(n, d) == [n |-> n, d |-> d]
NoModifierState == [active |-> FALSE, threshold |-> 0, alpha |-> 0]
DefaultScoring == [scorer |-> "relative-likes", modifier |-> NoModifierState]

\* no score or scrap call issued, for the given scorer and modifier
ScoringIdle(cfg) ==
  /\ sgCfg = cfg
  /\ sgOp = "none"
  /\ sgPc = "idle"
  /\ sgTweet = NoTweet
  /\ sgScore = Float(0, 1)
  /\ sgLast = << >>

\* face.py Params: the categories the face is constructed with; None is
\* the absent optional component
NoCategory == "None"
Pairs(f) == {<<k, f[k]>> : k \in DOMAIN f}
ParamsOf(scorer, modifier, restriction) ==
  [cat |-> Pairs([processor |-> "text", poster |-> "basic",
                  scorer |-> scorer, score_modifier |-> modifier,
                  scraper |-> "timeline", restriction |-> restriction]),
   maps |-> Pairs([poster |-> {}, scorer |-> {}, score_modifier |-> {},
                   scraper |-> {}, restriction |-> {}])]
DefaultParams == ParamsOf("relative-likes", NoCategory, NoCategory)
NoComposite == [cat |-> {}, maps |-> {}]
Dir(kind, dict) == [kind |-> kind, dict |-> dict]
MissingDir == Dir("missing", NoComposite)

\* the face constructed, load_or_init not called yet
PersistIdle(params, dir) ==
  /\ psParams = params
  /\ psDir = dir
  /\ psPc = "idle"
  /\ psStage = 0
  /\ psDict = NoComposite
  /\ psPart = {}
  /\ psFace = NoComposite
  /\ psLog = << >>
  /\ psSaved = NoComposite
  /\ psGen = 0

\* models.py ToxicityModelLoader: the class attributes as defined, no
\* thread has called get
LoaderIdle ==
  /\ mlModel = 0
  /\ mlCount = 0
  /\ mlLock = 0
  /\ mlPc = [t \in Threads |-> "idle"]
  /\ mlSeen = [t \in Threads |-> FALSE]
  /\ mlHeld = [t \in Threads |-> 0]
  /\ mlLoads = 0
  /\ mlGets = 0

\* scoring/modifiers.py ToxicityScoreModifier.modifier is about to be called
\* with the given arguments
ModifierIdle(x, threshold, alpha) ==
  /\ mdX = x
  /\ mdThreshold = threshold
  /\ mdAlpha = alpha
  /\ mdPc = "called"
  /\ mdOut = "none"

\* __main__.py run: server_task and init_task are created and run() waits
\* in asyncio.wait
RunIdle ==
  /\ rnPc = "wait"
  /\ rnServer = "running"
  /\ rnSignal = FALSE
  /\ rnCancelReq = {}
  /\ rnDone = {}
  /\ rnPending = << >>
  /\ rnSaved = FALSE
  /\ rnCleaned = FALSE

LateIdle ==
  /\ LoaderIdle
  /\ ModifierIdle(0, 0, 0)
  /\ RunIdle

\* the pipelines of the host before any call
HostIdle ==
  /\ PostIdle
  /\ FieldsIdle
  /\ NeedsIdle(DefaultComponents)
  /\ ScoringIdle(DefaultScoring)
  /\ PersistIdle(DefaultParams, MissingDir)
  /\ LateIdle

Init ==
  /\ InitFace
  /\ ParIdle
  /\ ScrapIdle(<< >>, NoLimit)
  /\ ScrapBounds(NoTime, NoTime)
  /\ HostIdle

\* set_config calls issued at any time, also while another one is running
Next ==
  \/ AInit
  \/ \E c \in Calls : set_config(c)

Spec == Init /\ [][Next]_vars

\* the steps of a set_config call that has been issued
Continue(c) ==
  \/ CopyDone(c)
  \/ CopyFail(c)
  \/ ParamStep(c)
  \/ Swap(c)
  \/ DestroyDone(c)
  \/ GetStep(c)
  \/ ConfigNotify(c)

\* the event loop resumes every coroutine whose awaited hook or parameter
\* operation has returned or raised: a set_config that can take a step
\* takes one, and build() runs __ainit__
\* a config every item of which is accepted, and one whose last item is not
FairConfigs ==
  {c \in Configs : Len(c) >= 1 /\ c[1].name # "nokey" /\ c[1].value.config = {}}

NextFair ==
  \/ AInit
  \/ \E c \in Calls : \E config \in FairConfigs : LoadingEnter(c, config)
  \/ \E c \in Calls : Continue(c)

SpecFair ==
  /\ Init
  /\ [][NextFair]_vars
  /\ WF_vars(AInit)
  /\ \A c \in Calls : WF_vars(Continue(c))

\* set_config calls that overlap, each naming one parameter: the scorer with
\* another type, or the scraper
DisjointConfigs ==
  {<<Item("scorer", TypeValue("impressions", {}))>>,
   <<Item("scraper", TypeValue("timeline", {}))>>}

NextOverlap ==
  \/ AInit
  \/ \E c \in Calls : \E config \in DisjointConfigs : LoadingEnter(c, config)
  \/ \E c \in Calls : Continue(c)

SpecOverlap == Init /\ [][NextOverlap]_vars

\* post / score / scrap calls issued at any time, MaxSeqCalls set_config
\* calls issued one after the other
Quiet(c) == \A d \in Calls \ {c} : scPc[d] \in {"idle", "done", "failed"}

SeqEnter(c, config) ==
  /\ c <= MaxSeqCalls
  /\ Quiet(c)
  /\ LoadingEnter(c, config)

NextOps ==
  \/ AInit
  \/ \E c \in Calls : \E config \in Configs : SeqEnter(c, config)
  \/ \E c \in Calls :
       \/ CopyDone(c)
       \/ CopyFail(c)
       \/ ParamStep(c)
       \/ Swap(c)
       \/ DestroyDone(c)
       \/ GetStep(c)
       \/ ConfigNotify(c)
  \/ \E r \in Readers : reader(r)

SpecOps == Init /\ [][NextOps]_vars

\* ------------------------------------------- Observable, with its consumers
\* messages handed to _notify: booleans by _set_ready, configs by set_config
Messages(topic) ==
  IF topic = "ready" THEN BOOLEAN
  ELSE {ConfigOf([InitialState EXCEPT !.scoring_type = t]) :
          t \in {"likes", "impressions"}}

Published == Len(pub["ready"]) + Len(pub["config"])

\* a caller of Observable._notify
Publish(topic, msg) ==
  /\ Published < MaxPubs
  /\ notify(topic, 0, msg)
  /\ UNCHANGED <<faceVars, scVars, rdVars, subVars, extVars>>

\* Observable._create_queue up to its yield: the queue is registered under
\* the topic, the topic entry is created when missing
RegisterQueue(q, topic, id) ==
  IF topic \in DOMAIN q
  THEN [q EXCEPT ![topic] = [i \in DOMAIN q[topic] \cup {id} |->
                               IF i = id THEN << >> ELSE q[topic][i]]]
  ELSE [t \in DOMAIN q \cup {topic} |->
          IF t = topic THEN [i \in {id} |-> << >>] ELSE q[t]]

\* Observable._create_queue when an exception is thrown into it at its
\* yield: the generator has no try/finally around the yield, so the
\* statements after it (pop the queue, pop the empty topic) are not run
ThrowIntoCreateQueue(q, topic, id) == q

\* watch_ready / watch_config: the first item is requested, _subscribe
\* enters _create_queue and waits in queue.get()
Subscribe(s, topic) ==
  /\ subPc[s] = "idle"
  /\ s > 1 => subPc[s - 1] # "idle"
  /\ queues' = RegisterQueue(queues, topic, s)
  /\ subPc' = [subPc EXCEPT ![s] = "waiting"]
  /\ subTopic' = [subTopic EXCEPT ![s] = topic]
  /\ subFrom' = [subFrom EXCEPT ![s] = Len(pub[topic])]
  /\ UNCHANGED <<faceVars, pub, scVars, rdVars, received, extVars>>

\* queue.get() returns a message, which is not None: it is yielded and the
\* consumer asks for the next one
Receive(s) ==
  /\ subPc[s] = "waiting"
  /\ queues[subTopic[s]][s] # << >>
  /\ received' = [received EXCEPT ![s] = Append(@, Head(queues[subTopic[s]][s]))]
  /\ queues' = [queues EXCEPT ![subTopic[s]][s] = Tail(@)]
  /\ UNCHANGED <<faceVars, pub, scVars, rdVars, subPc, subTopic, subFrom,
                 extVars>>

\* the consumer closes or cancels the stream: GeneratorExit / CancelledError
\* is raised at queue.get() (or at the yield) inside the async with, and
\* __aexit__ throws it into _create_queue
Close(s) ==
  /\ subPc[s] = "waiting"
  /\ queues' = ThrowIntoCreateQueue(queues, subTopic[s], s)
  /\ subPc' = [subPc EXCEPT ![s] = "closed"]
  /\ UNCHANGED <<faceVars, pub, scVars, rdVars, subTopic, subFrom, received,
                 extVars>>

NextObs ==
  \/ \E topic \in Topics : \E msg \in Messages(topic) : Publish(topic, msg)
  \/ \E s \in Subs : \E topic \in Topics : Subscribe(s, topic)
  \/ \E s \in Subs : Receive(s)
  \/ \E s \in Subs : Close(s)

SpecObs == Init /\ [][NextObs]_vars

\* ------------------------------------------ TwitterController.watch_config
\* queue_id = uuid4(): the queue of watcher w is registered under an id of
\* its own
WatcherQueue(w) == 0 - w

\* old = await self.config(): get_config reads self._state once per
\* parameter; the read of the first parameter follows the call without a
\* suspension
WatchCall(w) ==
  /\ built
  /\ wPc[w] = "idle"
  /\ w > 1 => wPc[w - 1] # "idle"
  /\ IF NotReady \/ GetRaises(heap[cur], ParameterNames[1])
     THEN /\ wPc' = [wPc EXCEPT ![w] = "failed"]
          /\ UNCHANGED wOld
     ELSE /\ wPc' = [wPc EXCEPT ![w] = "getting"]
          /\ wOld' = [wOld EXCEPT ![w] = <<ParamGet(heap[cur], ParameterNames[1])>>]
  /\ UNCHANGED <<hostVars, faceVars, queues, pub, scVars, rdVars, subVars,
                 wNotes, wFrom, wAtSub, pVars, skVars>>

\* get_config of the watcher: the next parameter.get(self._state)
WatchGet(w) ==
  /\ wPc[w] = "getting"
  /\ Len(wOld[w]) < Len(ParameterNames)
  /\ LET name == ParameterNames[Len(wOld[w]) + 1]
     IN IF NotReady \/ GetRaises(heap[cur], name)
        THEN /\ wPc' = [wPc EXCEPT ![w] = "failed"]
             /\ UNCHANGED wOld
        ELSE /\ wOld' = [wOld EXCEPT ![w] = Append(@, ParamGet(heap[cur], name))]
             /\ UNCHANGED wPc
  /\ UNCHANGED <<hostVars, faceVars, queues, pub, scVars, rdVars, subVars,
                 wNotes, wFrom, wAtSub, pVars, skVars>>

\* config() has returned: the async for asks face.watch_config() for its
\* first item, _subscribe("config") registers the queue and waits in
\* queue.get()
WatchSubscribe(w) ==
  /\ wPc[w] = "getting"
  /\ Len(wOld[w]) = Len(ParameterNames)
  /\ queues' = RegisterQueue(queues, "config", WatcherQueue(w))
  /\ wPc' = [wPc EXCEPT ![w] = "waiting"]
  /\ wFrom' = [wFrom EXCEPT ![w] = Len(pub["config"])]
  /\ wAtSub' = [wAtSub EXCEPT ![w] = ConfigOf(heap[cur])]
  /\ UNCHANGED <<hostVars, faceVars, pub, scVars, rdVars, subVars, wOld, wNotes, pVars,
                 skVars>>

\* queue.get() returns a config: ConfigNotification(old, new) is yielded,
\* old = new, and the next item is requested
WatchReceive(w) ==
  /\ wPc[w] = "waiting"
  /\ queues["config"][WatcherQueue(w)] # << >>
  /\ LET new == Head(queues["config"][WatcherQueue(w)])
     IN /\ wNotes' = [wNotes EXCEPT ![w] = Append(@, [old |-> wOld[w], new |-> new])]
        /\ wOld' = [wOld EXCEPT ![w] = new]
  /\ queues' = [queues EXCEPT !["config"][WatcherQueue(w)] = Tail(@)]
  /\ UNCHANGED <<hostVars, faceVars, pub, scVars, rdVars, subVars, wPc, wFrom, wAtSub,
                 pVars, skVars>>

watch_config(w) ==
  \/ WatchCall(w)
  \/ WatchGet(w)
  \/ WatchSubscribe(w)
  \/ WatchReceive(w)

\* a set_config issued when no other set_config is running
QuietEnter(c, config) ==
  /\ Quiet(c)
  /\ LoadingEnter(c, config)

\* set_config calls issued at any time with the empty config, with the
\* values the first state has, and with another scoring type
SameConfigs ==
  {<< >>,
   <<Item("scorer", TypeValue("likes", {}))>>,
   <<Item("processor", TypeValue(NoType, {})),
     Item("scraper", TypeValue("timeline", {}))>>,
   <<Item("scorer", TypeValue("impressions", {}))>>}

NextSame ==
  \/ AInit
  \/ \E c \in Calls : \E config \in SameConfigs : LoadingEnter(c, config)
  \/ \E c \in Calls : Continue(c)

SpecSame == Init /\ [][NextSame]_vars

\* watch_config streams opened at any time, set_config calls issued one
\* after the other
NextWatch ==
  \/ AInit
  \/ \E c \in Calls : \E config \in Configs : QuietEnter(c, config)
  \/ \E c \in Calls :
       \/ CopyDone(c)
       \/ CopyFail(c)
       \/ ParamStep(c)
       \/ Swap(c)
       \/ DestroyDone(c)
       \/ GetStep(c)
       \/ ConfigNotify(c)
  \/ \E w \in Watchers : watch_config(w)

SpecWatch == Init /\ [][NextWatch]_vars

\* ------------------------------------- Parameter.get / set on a given state
\* the values handed to Parameter.set
ParValues(name) ==
  CASE name = "processor" -> {TypeValue(NoType, c) : c \in {{}, {"k"}}}
    [] name = "scorer" ->
         {TypeValue(t, c) : t \in {"likes", "retweets", "bogus"},
                            c \in {{}, {"k"}}}
    [] name = "scraper" ->
         {TypeValue(t, c) : t \in {"timeline", "bogus"}, c \in {{}, {"k"}}}

\* the states handed to Parameter.get / set: built states, any active type
ParStates == {[InitialState EXCEPT !.scoring_type = t] : t \in ScoringTypes}

\* the ways in which the get_config awaited by _get ends: it returns, it
\* raises an exception that is not an AppError, it raises the AppError
\* STATE_NOT_READY_ERROR
HookFaults == {"none", "RuntimeError", "not_ready"}

\* await parameter.set(state, value)
ParSet(name, value) ==
  /\ Len(pLog) < MaxParOps
  /\ LET r == ParameterSet(pState, name, value)
     IN /\ pState' = r.state
        /\ pLog' = Append(pLog,
             [op |-> "set", name |-> name, value |-> value,
              before |-> pState, after |-> r.state, invoked |-> r.invoked,
              exc |-> IF r.invoked
                      THEN UnderlyingSet(pState, name, value).exc ELSE "none",
              err |-> r.err, cause |-> r.cause,
              got |-> ParameterGet(r.state, name, "none").value])
  /\ UNCHANGED <<hostVars, faceVars, queues, pub, scVars, rdVars, subVars, wVars, skVars>>

\* await parameter.get(state)
ParGet(name, fault) ==
  /\ Len(pLog) < MaxParOps
  /\ LET g == ParameterGet(pState, name, fault)
     IN pLog' = Append(pLog,
             [op |-> "get", name |-> name, value |-> NoValue,
              before |-> pState, after |-> pState, invoked |-> FALSE,
              exc |-> g.exc, err |-> g.err, cause |-> g.cause,
              got |-> g.value])
  /\ UNCHANGED <<hostVars, faceVars, queues, pub, scVars, rdVars, subVars, wVars,
                 pState, skVars>>

InitPar ==
  /\ InitFace
  /\ pState \in ParStates
  /\ pLog = << >>
  /\ ScrapIdle(<< >>, NoLimit)
  /\ ScrapBounds(NoTime, NoTime)
  /\ HostIdle

NextPar ==
  \/ \E i \in 1..Len(ParameterNames) :
       \E value \in ParValues(ParameterNames[i]) :
         ParSet(ParameterNames[i], value)
  \/ \E i \in 1..Len(ParameterNames) :
       \E fault \in HookFaults : ParGet(ParameterNames[i], fault)

SpecPar == InitPar /\ [][NextPar]_vars

\* ---------------------------------------- TwitterFace.scrap (face.py), _fetch,
\* ---------------------------------------- TimelineScraper.scrap (scrapers.py)
\* What the home timeline returns, as one sequence: a tweet that converts to
\* a post ("ok"), a tweet whose conversion raises ("bad"), a tweet of the
\* authenticated user ("own"), a tweet whose scoring raises and whose
\* conversion would return ("err") or raise ("errbad"), and the end of a
\* page whose meta holds a next_token ("break").  The last page ends with the sequence and has no
\* next_token.  A tweet has its index as id; the next_token of a page is
\* the index of its end.
EventKinds == {"ok", "bad", "own", "break", "err", "errbad"}
Upstreams == UNION {[1..n -> EventKinds] : n \in 0..MaxUp}
Limits == {NoLimit} \cup (0..MaxUp)
ScrapTimes == {NoTime, 1}

\* the loop over response.data in TimelineScraper.scrap: tweets with
\* tweet.author_id = me.id are passed over; the result is the index of the
\* next tweet that is yielded, of the page end, or Len(up) + 1
\* variant of the loop without the test of the author
AdvanceAll(up, p) == p

RECURSIVE Advance(_, _)
Advance(up, p) ==
  IF p > Len(up) THEN p
  ELSE IF up[p] = "own" THEN Advance(up, p + 1)
  ELSE p

\* variant of the limit test that counts the tweets pulled from the scraper,
\* dropped ones included
TakeExhaustedByPulls ==
  skLimit # NoLimit /\ Len(skOut) + Cardinality(skSkipped) >= skLimit

\* stream.take(posts, limit): the pipeline ends when limit items have been
\* passed on; without a limit stream.iterate passes every item on
TakeExhausted == skLimit # NoLimit /\ Len(skOut) >= skLimit

\* variant in which the try of _fetch encloses the scoring as well
InTryScoring(site) == site \in {"score", "transform"}

\* variant in which no statement of _fetch is inside the try
InTryNone(site) == FALSE

\* the try of _fetch encloses Post.from_tweet and processor.to_external,
\* nothing else
InTry(site) == site = "transform"

\* fields + TweetFields(expansions=["author_id"], tweet_fields=["author_id"])
\* for the fields of a face without needs, as keyword arguments
FieldKwargs ==
  {<<"expansions", {"author_id"}>>, <<"tweet_fields", {"author_id"}>>}

\* params before the loop: start_time and end_time when given, the fields
InitialParams(before, after) ==
  (IF after # NoTime THEN {<<"start_time", after>>} ELSE {})
  \cup (IF before # NoTime THEN {<<"end_time", before>>} ELSE {})
  \cup FieldKwargs

\* response.meta["next_token"] of the page that ends at index q
next_token(q) == q

\* variant that requests the next page without the token
PaginateNot(params, token) == params

\* params["pagination_token"] = response.meta["next_token"]
Paginate(params, token) == SetItem(params, "pagination_token", token)

\* the pipeline has ended: the async with of scrap is left and the read
\* access is given back
Leave(pc, err) ==
  /\ skPc' = pc
  /\ skErr' = err
  /\ skLock' = FALSE

\* the scraper goes on from index p: it yields the next tweet to _fetch,
\* which starts to score it; or the page is used up and the
\* next one is requested with its next_token; or the last page is used up
\* and every generator ends
Proceed(p) ==
  LET q == Advance(skUp, p)
  IN /\ skPos' = q
     /\ IF q > Len(skUp)
        THEN /\ Leave("done", "none")
             /\ UNCHANGED <<skReqs, skParams, skCalls>>
        ELSE IF skUp[q] = "break"
        THEN /\ skPc' = "page"
             /\ skParams' = Paginate(skParams, next_token(q))
             /\ skReqs' = Append(skReqs, Get(skParams', "pagination_token", NoToken))
             /\ skCalls' = Append(skCalls, skParams')
             /\ UNCHANGED <<skLock, skErr>>
        ELSE /\ skPc' = "score"
             /\ UNCHANGED <<skReqs, skParams, skCalls, skLock, skErr>>

\* scrap() is called and its first item requested: the read access is
\* taken; take ends at once for a limit of 0; otherwise _fetch asks the
\* scraper for its first tweet and the scraper requests get_me
ScrapStart ==
  /\ skPc = "idle"
  /\ IF TakeExhausted
     THEN /\ Leave("done", "none")
          /\ UNCHANGED skMe
     ELSE /\ skPc' = "me"
          /\ skLock' = TRUE
          /\ skMe' = skMe + 1
          /\ UNCHANGED skErr
  /\ UNCHANGED <<hostVars, faceVars, queues, pub, scVars, rdVars, subVars, wVars, pVars,
                 skUp, skBefore, skAfter, skScored, skLimit, skPos, skReqs, skParams, skCalls, skOut, skSkipped, skRaised,
                 skCancel>>

\* get_me returns: the first page is requested, without pagination_token
GetMeReturns ==
  /\ skPc = "me"
  /\ skPc' = "page"
  /\ skParams' = InitialParams(skBefore, skAfter)
  /\ skReqs' = Append(skReqs, Get(skParams', "pagination_token", NoToken))
  /\ skCalls' = Append(skCalls, skParams')
  /\ UNCHANGED <<hostVars, faceVars, queues, pub, scVars, rdVars, subVars, wVars, pVars,
                 skUp, skBefore, skAfter, skScored, skLimit, skPos, skLock, skMe, skOut, skSkipped,
                 skRaised, skErr, skCancel>>

\* get_home_timeline returns the page
PageReturns ==
  /\ skPc = "page"
  /\ Proceed(skPos + 1)
  /\ UNCHANGED <<hostVars, faceVars, queues, pub, scVars, rdVars, subVars, wVars, pVars,
                 skUp, skBefore, skAfter, skScored, skLimit, skMe, skOut, skSkipped, skRaised, skCancel>>

\* get_me or get_home_timeline raises
FetchRaises ==
  /\ skPc \in {"me", "page"}
  /\ skRaised' = skRaised \cup {skPc}
  /\ IF InTry(skPc)
     THEN /\ Proceed(skPos + 1)
          /\ UNCHANGED <<skOut, skSkipped>>
     ELSE /\ Leave("failed", "upstream")
          /\ UNCHANGED <<skPos, skReqs, skParams, skCalls, skOut, skSkipped>>
  /\ UNCHANGED <<hostVars, faceVars, queues, pub, scVars, rdVars, subVars, wVars, pVars,
                 skUp, skBefore, skAfter, skScored, skLimit, skMe, skCancel>>

\* scorer.score and score_modifier.modify return: _fetch starts to convert
\* the tweet
ScoringReturns ==
  /\ skPc = "score"
  /\ skUp[skPos] \in {"ok", "bad"}
  /\ skScored' = skScored \cup {skPos}
  /\ skPc' = "transform"
  /\ UNCHANGED <<hostVars, faceVars, queues, pub, scVars, rdVars, subVars, wVars, pVars,
                 skUp, skBefore, skAfter, skLimit, skPos, skLock, skMe, skReqs, skParams, skCalls, skOut, skSkipped,
                 skRaised, skErr, skCancel>>

\* scorer.score or score_modifier.modify raises, outside of the try
ScoringRaises ==
  /\ skPc = "score"
  /\ skUp[skPos] \in {"err", "errbad"}
  /\ skRaised' = skRaised \cup {"score"}
  /\ IF InTry("score")
     THEN /\ skSkipped' = skSkipped \cup {skPos}
          /\ Proceed(skPos + 1)
     ELSE /\ Leave("failed", "score")
          /\ UNCHANGED <<skPos, skReqs, skParams, skCalls, skSkipped>>
  /\ UNCHANGED <<hostVars, faceVars, queues, pub, scVars, rdVars, subVars, wVars, pVars,
                 skUp, skBefore, skAfter, skLimit, skMe, skOut, skCancel, skScored>>

\* Post.from_tweet and processor.to_external return: _fetch yields the
\* item, take and scrap pass it on to the consumer
TransformReturns ==
  /\ skPc = "transform"
  /\ skUp[skPos] = "ok"
  /\ skOut' = Append(skOut, skPos)
  /\ skPc' = "yielded"
  /\ UNCHANGED <<hostVars, faceVars, queues, pub, scVars, rdVars, subVars, wVars, pVars,
                 skUp, skBefore, skAfter, skScored, skLimit, skPos, skLock, skMe, skReqs, skParams, skCalls, skSkipped,
                 skRaised, skErr, skCancel>>

\* Post.from_tweet or processor.to_external raises: except Exception,
\* continue
TransformRaises ==
  /\ skPc = "transform"
  /\ skUp[skPos] = "bad"
  /\ skRaised' = skRaised \cup {"transform"}
  /\ IF InTry("transform")
     THEN /\ skSkipped' = skSkipped \cup {skPos}
          /\ Proceed(skPos + 1)
     ELSE /\ Leave("failed", "transform")
          /\ UNCHANGED <<skPos, skReqs, skParams, skCalls, skSkipped>>
  /\ UNCHANGED <<hostVars, faceVars, queues, pub, scVars, rdVars, subVars, wVars, pVars,
                 skUp, skBefore, skAfter, skScored, skLimit, skMe, skOut, skCancel>>

\* variant of take that asks _fetch for the next item before it tests the
\* limit
ConsumerNextEager ==
  /\ skPc = "yielded"
  /\ Proceed(skPos + 1)
  /\ UNCHANGED <<hostVars, faceVars, queues, pub, scVars, rdVars, subVars, wVars, pVars,
                 skUp, skBefore, skAfter, skScored, skLimit, skMe, skOut, skSkipped, skRaised, skCancel>>

\* the consumer requests the next item: take returns when the limit is
\* reached, otherwise _fetch asks the scraper for the next tweet
ConsumerNext ==
  /\ skPc = "yielded"
  /\ IF TakeExhausted
     THEN /\ Leave("done", "none")
          /\ UNCHANGED <<skPos, skReqs, skParams, skCalls>>
     ELSE Proceed(skPos + 1)
  /\ UNCHANGED <<hostVars, faceVars, queues, pub, scVars, rdVars, subVars, wVars, pVars,
                 skUp, skBefore, skAfter, skScored, skLimit, skMe, skOut, skSkipped, skRaised, skCancel>>

\* variant for an except clause that catches the cancellation as well: a
\* cancellation that arrives during the conversion drops the tweet and the
\* pipeline goes on
ConsumerStopsCaught ==
  /\ skPc \in {"me", "page", "score", "transform", "yielded"}
  /\ skCancel = NoCancel
  /\ skCancel' = [at |-> skPc, reqs |-> Len(skReqs), skipped |-> skSkipped]
  /\ IF skPc = "transform"
     THEN /\ skSkipped' = skSkipped \cup {skPos}
          /\ Proceed(skPos + 1)
     ELSE /\ Leave("cancelled", "none")
          /\ UNCHANGED <<skPos, skReqs, skParams, skCalls, skSkipped>>
  /\ UNCHANGED <<hostVars, faceVars, queues, pub, scVars, rdVars, subVars, wVars, pVars,
                 skUp, skBefore, skAfter, skScored, skLimit, skMe, skOut, skRaised>>

\* the consumer stops: aclose() while scrap is suspended at its yield
\* (GeneratorExit is raised there), or cancellation of the consuming task
\* while a request or a conversion is awaited (CancelledError is raised at
\* that await).  Neither is an Exception, so the except clause of _fetch
\* does not apply; every generator and the async with of scrap are left.
ConsumerStops ==
  /\ skPc \in {"me", "page", "score", "transform", "yielded"}
  /\ skCancel = NoCancel
  /\ skCancel' = [at |-> skPc, reqs |-> Len(skReqs), skipped |-> skSkipped]
  /\ Leave("cancelled", "none")
  /\ UNCHANGED <<hostVars, faceVars, queues, pub, scVars, rdVars, subVars, wVars, pVars,
                 skUp, skBefore, skAfter, skScored, skLimit, skPos, skMe, skReqs, skParams, skCalls, skOut, skSkipped,
                 skRaised>>

InitScrap ==
  /\ InitFace
  /\ ParIdle
  /\ \E up \in Upstreams : \E limit \in Limits : ScrapIdle(up, limit)
  /\ \E before \in ScrapTimes : \E after \in ScrapTimes : ScrapBounds(before, after)
  /\ HostIdle

NextScrap ==
  \/ ScrapStart
  \/ GetMeReturns
  \/ PageReturns
  \/ FetchRaises
  \/ ScoringReturns
  \/ ScoringRaises
  \/ TransformReturns
  \/ TransformRaises
  \/ ConsumerNext
  \/ ConsumerStops

SpecScrap == InitScrap /\ [][NextScrap]_vars

\* the requests to Twitter return or raise, and the consumer of scrap asks
\* for the next item or stops: a scrap that can take a step takes one
SpecScrapFair == InitScrap /\ [][NextScrap]_vars /\ WF_vars(NextScrap)

\* -------------------------------------------- TwitterFace.post (face.py),
\* -------------------------------------------- ToxicityRestriction, BasicPoster
MaxTox == 2   \* toxicity scores and thresholds are multiples of 1 / MaxTox

\* detoxify.predict(text)["toxicity"]; a text is identified by its score
Toxicities == 0..MaxTox
\* ToxicityRestrictionState.threshold
Thresholds == 0..MaxTox
Restrictions == {NoRestriction} \cup Thresholds
\* the argument content: a JSON object with an optional text and image
ContentKeys == {"text", "image"}
Contents ==
  { t \cup i : t \in {{}} \cup {{<<"text", x>>} : x \in Toxicities},
               i \in {{}, {<<"image", 0>>}} }

\* processor.to_internal: the PostData (text, image) built from the content
to_internal(content) ==
  [text |-> IF \E p \in content : p[1] = "text"
              THEN (CHOOSE p \in content : p[1] = "text")[2]
              ELSE NoText,
   image |-> \E p \in content : p[1] = "image"]

\* ToxicityRestriction.check
check(threshold, data) ==
  IF data.text = NoText THEN TRUE ELSE data.text < threshold

RejectedNever(restriction, data) == FALSE
\* TwitterFace.post: the two ifs in front of the raise ValueError
Rejected(restriction, data) ==
  restriction # NoRestriction /\ ~check(restriction, data)

postFrame == <<coreVars, tfVars, nfVars, sgVars, psVars, lateVars>>

\* post is called; the read access gives state with its restriction
PostCall(content, restriction) ==
  /\ poPc = "idle"
  /\ poPc' = "convert"
  /\ poContent' = content
  /\ poRestr' = restriction
  /\ UNCHANGED <<poData, poVerdict, poNet, poErr, postFrame>>

\* processor.to_internal returns; the restriction is asked; BasicPoster.post
\* runs up to its first client call
ToInternalReturns ==
  /\ poPc = "convert"
  /\ LET data == to_internal(poContent)
     IN /\ poData' = data
        /\ poVerdict' = IF poRestr = NoRestriction THEN "inactive"
                        ELSE IF check(poRestr, data) THEN "pass"
                        ELSE "reject"
        /\ IF Rejected(poRestr, data)
             THEN /\ poPc' = "failed"
                  /\ poErr' = "ValueError"
                  /\ UNCHANGED poNet
             ELSE /\ poPc' = IF data.image THEN "upload" ELSE "create"
                  /\ poNet' = IF data.image THEN <<"media_upload">>
                              ELSE <<"create_tweet">>
                  /\ UNCHANGED poErr
  /\ UNCHANGED <<poContent, poRestr, postFrame>>

\* processor.to_internal raises on a content the post type does not accept
ToInternalRaises ==
  /\ poPc = "convert"
  /\ poPc' = "failed"
  /\ poErr' = "ValidationError"
  /\ UNCHANGED <<poContent, poRestr, poData, poVerdict, poNet, postFrame>>

\* client.v1.media_upload returns; create_tweet is issued
MediaUploadReturns ==
  /\ poPc = "upload"
  /\ poPc' = "create"
  /\ poNet' = Append(poNet, "create_tweet")
  /\ UNCHANGED <<poContent, poRestr, poData, poVerdict, poErr, postFrame>>

\* client.v2.create_tweet returns; get_me is issued
CreateTweetReturns ==
  /\ poPc = "create"
  /\ poPc' = "me"
  /\ poNet' = Append(poNet, "get_me")
  /\ UNCHANGED <<poContent, poRestr, poData, poVerdict, poErr, postFrame>>

\* client.v2.get_me returns; post returns (id, url)
PosterGetMeReturns ==
  /\ poPc = "me"
  /\ poPc' = "done"
  /\ UNCHANGED <<poContent, poRestr, poData, poVerdict, poNet, poErr,
                 postFrame>>

\* a client call of BasicPoster.post raises
ClientRaises ==
  /\ poPc \in {"upload", "create", "me"}
  /\ poPc' = "failed"
  /\ poErr' = "TweepyException"
  /\ UNCHANGED <<poContent, poRestr, poData, poVerdict, poNet, postFrame>>

NextPost ==
  \/ \E content \in Contents : \E restriction \in Restrictions :
       PostCall(content, restriction)
  \/ ToInternalReturns
  \/ ToInternalRaises
  \/ MediaUploadReturns
  \/ CreateTweetReturns
  \/ PosterGetMeReturns
  \/ ClientRaises

SpecPost == Init /\ [][NextPost]_vars

\* ------------------------------------------------ TweetFields.__add__ (data.py)
MaxListLen == 2   \* longest list an operand holds in one group

\* field names of data.py (Expansion, MediaField, ..., UserField) the operands
\* are built from
FieldNames ==
  [expansions |-> {"author_id", "attachments.media_keys"},
   media_fields |-> {"url"},
   place_fields |-> {"id"},
   poll_fields |-> {"id"},
   tweet_fields |-> {"id", "text"},
   user_fields |-> {"public_metrics"}]

Elems(l) == {l[i] : i \in 1..Len(l)}
\* a or []
Items(v) == IF v = None THEN << >> ELSE CHOOSE l \in v : TRUE

\* the values one group of an operand can hold: None, [] and the lists of
\* at most MaxListLen names, repetitions included
GroupValues(g) ==
  {None} \cup
  UNION {{List(l) : l \in [1..n -> FieldNames[g]]} : n \in 0..MaxListLen}

\* the operands: TweetFields with at most one group given
Operands ==
  {NoFields} \cup
  UNION {{[NoFields EXCEPT ![g] = v] : v \in GroupValues(g) \ {None}} :
         g \in Groups}

\* list(set(...)): the elements once each, in the order of the hash table
ListsOf(S) ==
  IF S = {} THEN {<< >>}
  ELSE {l \in [1..Cardinality(S) -> S] : Elems(l) = S}

mergeLeft(a, b) == {IF Items(a) = << >> THEN b ELSE a}
\* merge of __add__: the values list(set((a or []) + (b or []))) or None
\* can evaluate to
merge(a, b) ==
  {IF l = << >> THEN None ELSE List(l) :
     l \in ListsOf(Elems(Items(a) \o Items(b)))}

\* TweetFields.__add__ for other a TweetFields: the possible results
add(x, y) ==
  [expansions : merge(x.expansions, y.expansions),
   media_fields : merge(x.media_fields, y.media_fields),
   place_fields : merge(x.place_fields, y.place_fields),
   poll_fields : merge(x.poll_fields, y.poll_fields),
   tweet_fields : merge(x.tweet_fields, y.tweet_fields),
   user_fields : merge(x.user_fields, y.user_fields)]

\* the additions evaluated for each expression: <<result, left, right>>
Laws == {"commute", "associate", "repeat", "absorb"}
Additions(law) ==
  CASE law = "commute" -> << <<"L", "A", "B">>, <<"R", "B", "A">> >>
    [] law = "associate" -> << <<"T", "A", "B">>, <<"L", "T", "C">>,
                               <<"T", "B", "C">>, <<"R", "A", "T">> >>
    [] law = "repeat" -> << <<"L", "A", "A">> >>
    [] law = "absorb" -> << <<"T", "A", "B">>, <<"L", "T", "A">> >>
    [] OTHER -> << >>

\* one evaluation of self + other
Add ==
  /\ tfStep < Len(Additions(tfLaw))
  /\ LET a == Additions(tfLaw)[tfStep + 1]
         x == tfReg[a[2]]
         y == tfReg[a[3]]
     IN \E sum \in add(x, y) :
          /\ tfReg' = [tfReg EXCEPT ![a[1]] = sum]
          /\ tfLast' = <<x, y, sum>>
  /\ tfStep' = tfStep + 1
  /\ UNCHANGED <<tfLaw, coreVars, poVars, nfVars, sgVars, psVars, lateVars>>

InitFields ==
  /\ InitFace
  /\ ParIdle
  /\ ScrapIdle(<< >>, NoLimit)
  /\ ScrapBounds(NoTime, NoTime)
  /\ PostIdle
  /\ NeedsIdle(DefaultComponents)
  /\ ScoringIdle(DefaultScoring)
  /\ PersistIdle(DefaultParams, MissingDir)
  /\ LateIdle
  /\ tfLaw \in Laws
  /\ \E a \in Operands :
       \E b \in IF tfLaw = "repeat" THEN {NoFields} ELSE Operands :
         \E c \in IF tfLaw = "associate" THEN Operands ELSE {NoFields} :
           tfReg = [r \in Registers |->
                      CASE r = "A" -> a [] r = "B" -> b [] r = "C" -> c
                        [] OTHER -> NoFields]
  /\ tfStep = 0
  /\ tfLast = << >>

NextFields == Add

SpecFields == InitFields /\ [][NextFields]_vars

\* ------------------------------ needed fields of score and scrap (face.py),
\* ------------------------------ TimelineScraper.scrap (scrapers.py)
MaxPages == 2       \* get_home_timeline requests of one scrap
MaxPageItems == 2   \* tweets of one page

Fields(e, m, t, u) ==
  [NoFields EXCEPT !.expansions = e, !.media_fields = m, !.tweet_fields = t,
                   !.user_fields = u]

\* processors.py
TEXT_FIELDS == Fields(None, None, List(<<"text">>), None)
IMAGE_FIELDS ==
  Fields(List(<<"attachments.media_keys">>), List(<<"url">>),
         List(<<"attachments">>), None)
ProcessorTypes ==
  {"text", "image", "text-and-image", "text-or-image",
   "text-with-optional-image", "image-with-optional-text"}
\* scoring/raw.py, scoring/modifiers.py
ScorerTypes == {"relative-likes", "relative-retweets", "relative-impressions"}
ModifierTypes == {"toxicity"}
Components ==
  [processor : ProcessorTypes, scorer : ScorerTypes,
   modifier : {NoModifier} \cup ModifierTypes]

\* needed_fields of the component cfg holds for who: the values the
\* property can evaluate to
NeededFields(cfg, who) ==
  CASE who = "processor" ->
         (CASE cfg.processor = "text" -> {TEXT_FIELDS}
            [] cfg.processor = "image" -> {IMAGE_FIELDS}
            [] OTHER -> add(TEXT_FIELDS, IMAGE_FIELDS))
    [] who = "scorer" ->
         {Fields(List(<<"author_id">>), None,
                 List(<<IF cfg.scorer = "relative-impressions"
                          THEN "non_public_metrics" ELSE "public_metrics">>),
                 List(<<"public_metrics">>))}
    [] who = "modifier" ->
         IF cfg.modifier = NoModifier THEN {NoFields} ELSE {TEXT_FIELDS}
    [] who = "id" -> {Fields(None, None, List(<<"id">>), None)}
    [] OTHER -> {Fields(List(<<"author_id">>), None, List(<<"author_id">>),
                        None)}

PlanWithoutModifier(op, cfg) ==
  IF op = "score" THEN <<"scorer">> ELSE <<"id", "processor", "scorer">>
\* the needed_fields score and scrap add up, in the order of the code
Plan(op, cfg) ==
  (IF op = "score" THEN <<"scorer">> ELSE <<"id", "processor", "scorer">>)
    \o (IF cfg.modifier # NoModifier THEN <<"modifier">> ELSE << >>)

\* TweetFields.to_kwargs: dict(exclude_none=True)
to_kwargs(f) == [g \in {h \in Groups : f[h] # None} |-> Items(f[g])]

Request(call, by, kwargs, token) ==
  [call |-> call, by |-> by, kwargs |-> kwargs, token |-> token]

\* the requests a consumer of a fetched tweet issues: scorer.score and
\* score_modifier.modify compute from tweet and includes, Post.from_tweet
\* downloads the image of a tweet that has one
ConsumerRequests(who, media) ==
  IF who = "post" /\ media
    THEN << Request("download_image", who, << >>, NoToken) >>
    ELSE << >>

\* the requests that go through the TwitterClient
ClientCalls == {"get_me", "get_tweet", "get_home_timeline"}
ViaClient(reqs) == SelectSeq(reqs, LAMBDA r : r.call \in ClientCalls)
Others(reqs) == {reqs[i] : i \in {j \in 1..Len(reqs) : reqs[j].call \notin ClientCalls}}

\* all that the consumers of one fetched tweet request
RECURSIVE Consumed(_, _, _)
Consumed(cfg, whos, media) ==
  IF whos = << >> THEN << >>
  ELSE (IF Head(whos) = "modifier" /\ cfg.modifier = NoModifier THEN << >>
        ELSE ConsumerRequests(Head(whos), media))
       \o Consumed(cfg, Tail(whos), media)

needsFrame == <<coreVars, poVars, tfVars, sgVars, psVars, lateVars>>

\* score(id) or scrap(...) is called: fields gets its first value
NeedsCall(op) ==
  /\ nfPc = "idle"
  /\ nfOp' = op
  /\ nfPc' = "fields"
  /\ nfPlan' = Tail(Plan(op, nfCfg))
  /\ nfFields' \in NeededFields(nfCfg, Head(Plan(op, nfCfg)))
  /\ UNCHANGED <<nfCfg, nfReqs, nfPage, nfOther, needsFrame>>

\* fields = fields + <component>.needed_fields
AddNeeded ==
  /\ nfPc = "fields"
  /\ nfPlan # << >>
  /\ \E n \in NeededFields(nfCfg, Head(nfPlan)) : nfFields' \in add(nfFields, n)
  /\ nfPlan' = Tail(nfPlan)
  /\ UNCHANGED <<nfCfg, nfOp, nfPc, nfReqs, nfPage, nfOther, needsFrame>>

\* score: get_tweet is issued with fields.to_kwargs()
ScoreGetTweet ==
  /\ nfPc = "fields" /\ nfPlan = << >> /\ nfOp = "score"
  /\ nfReqs' = Append(nfReqs,
                      Request("get_tweet", "face", to_kwargs(nfFields), NoToken))
  /\ nfPc' = "get_tweet"
  /\ UNCHANGED <<nfCfg, nfOp, nfPlan, nfFields, nfPage, nfOther, needsFrame>>

\* score: get_tweet returns, the scorer and the modifier compute the score
ScoreReturns(media) ==
  /\ nfPc = "get_tweet"
  /\ LET reqs == Consumed(nfCfg, <<"scorer", "modifier">>, media)
     IN /\ nfReqs' = nfReqs \o ViaClient(reqs)
        /\ nfOther' = nfOther \cup Others(reqs)
  /\ nfPc' = "done"
  /\ UNCHANGED <<nfCfg, nfOp, nfPlan, nfFields, nfPage, needsFrame>>

\* scrap: the first pull starts TimelineScraper.scrap, which issues get_me
ScraperGetMe ==
  /\ nfPc = "fields" /\ nfPlan = << >> /\ nfOp = "scrap"
  /\ nfReqs' = Append(nfReqs,
                      Request("get_me", "scraper",
                              [g \in {"user_fields"} |-> <<"id">>], NoToken))
  /\ nfPc' = "get_me"
  /\ UNCHANGED <<nfCfg, nfOp, nfPlan, nfFields, nfPage, nfOther, needsFrame>>

\* get_me returns; the scraper adds its own fields, builds params and
\* requests the first page
ScraperGetTimeline ==
  /\ nfPc = "get_me"
  /\ \E n \in NeededFields(nfCfg, "scraper") : \E sum \in add(nfFields, n) :
       /\ nfFields' = sum
       /\ nfReqs' = Append(nfReqs,
                           Request("get_home_timeline", "scraper",
                                   to_kwargs(sum), NoToken))
  /\ nfPc' = "page"
  /\ UNCHANGED <<nfCfg, nfOp, nfPlan, nfPage, nfOther, needsFrame>>

\* get_home_timeline returns a page of tweets
TimelineReturns(page) ==
  /\ nfPc = "page"
  /\ nfPage' = page
  /\ nfPc' = "items"
  /\ UNCHANGED <<nfCfg, nfOp, nfPlan, nfFields, nfReqs, nfOther, needsFrame>>

\* _fetch takes the next tweet, which has an image or not: scorer, modifier,
\* Post.from_tweet
FetchItem(media) ==
  /\ nfPc = "items"
  /\ nfPage > 0
  /\ LET reqs == Consumed(nfCfg, <<"scorer", "modifier", "post">>, media)
     IN /\ nfReqs' = nfReqs \o ViaClient(reqs)
        /\ nfOther' = nfOther \cup Others(reqs)
  /\ nfPage' = nfPage - 1
  /\ UNCHANGED <<nfCfg, nfOp, nfPc, nfPlan, nfFields, needsFrame>>

Timelines(reqs) == SelectSeq(reqs, LAMBDA r : r.call = "get_home_timeline")

\* the page had a next_token: the same params with the pagination_token
ScraperNextPage ==
  /\ nfPc = "items"
  /\ nfPage = 0
  /\ Len(Timelines(nfReqs)) < MaxPages
  /\ nfReqs' = Append(nfReqs,
                      Request("get_home_timeline", "scraper",
                              to_kwargs(nfFields), Len(Timelines(nfReqs))))
  /\ nfPc' = "page"
  /\ UNCHANGED <<nfCfg, nfOp, nfPlan, nfFields, nfPage, nfOther, needsFrame>>

\* the page had no next_token
TimelineEnds ==
  /\ nfPc = "items"
  /\ nfPage = 0
  /\ nfPc' = "done"
  /\ UNCHANGED <<nfCfg, nfOp, nfPlan, nfFields, nfReqs, nfPage, nfOther,
                 needsFrame>>

Pages == 0..MaxPageItems

InitNeeds ==
  /\ InitFace
  /\ ParIdle
  /\ ScrapIdle(<< >>, NoLimit)
  /\ ScrapBounds(NoTime, NoTime)
  /\ PostIdle
  /\ FieldsIdle
  /\ ScoringIdle(DefaultScoring)
  /\ PersistIdle(DefaultParams, MissingDir)
  /\ LateIdle
  /\ \E cfg \in Components : NeedsIdle(cfg)

NextNeeds ==
  \/ \E op \in {"score", "scrap"} : NeedsCall(op)
  \/ AddNeeded
  \/ ScoreGetTweet
  \/ \E media \in BOOLEAN : ScoreReturns(media)
  \/ ScraperGetMe
  \/ ScraperGetTimeline
  \/ \E page \in Pages : TimelineReturns(page)
  \/ \E media \in BOOLEAN : FetchItem(media)
  \/ ScraperNextPage
  \/ TimelineEnds

SpecNeeds == InitNeeds /\ [][NextNeeds]_vars

\* --------------------------------- scores of score and _fetch (face.py),
\* --------------------------------- scoring/raw.py, scoring/modifiers.py
MaxCount == 2   \* largest like, retweet, impression and follower count

\* toxicity, threshold and alpha in halves: 0, 1/2, 1
Halves == {0, 1, 2}
Whole == 2
Counts == 0..MaxCount
Tweets ==
  [likes : Counts, retweets : Counts, impressions : {NoCount} \cup Counts,
   followers : Counts, toxicity : Halves]
ModifierStates ==
  {NoModifierState} \cup [active : {TRUE}, threshold : Halves, alpha : Halves]
Scorings == [scorer : ScorerTypes, modifier : ModifierStates]

Max(a, b) == IF a >= b THEN a ELSE b

\* RelativeLikesScorer / RelativeRetweetsScorer / RelativeImpressionsScorer
\* .score: the metric over max(followers, 1)
ScorerScore(scorer, tweet) ==
  Float(CASE scorer = "relative-likes" -> tweet.likes
          [] scorer = "relative-retweets" -> tweet.retweets
          [] OTHER -> IF tweet.impressions = NoCount THEN 0
                      ELSE tweet.impressions,
        Max(tweet.followers, 1))

\* ToxicityScoreModifier.modifier on the halves, where the general formula
\* is met only with x = threshold = 1/2, inner_value = 1/2, result 1/2
modifier(x, threshold, alpha) ==
  IF x = 0 \/ x = Whole THEN Float(Whole - x, Whole)
  ELSE IF threshold = 0 THEN Float(0, 1)
  ELSE IF threshold = Whole THEN Float(1, 1)
  ELSE IF alpha = Whole /\ x = threshold THEN Float(1, 1)
  ELSE Float(1, 2)

modifySum(state, tweet, score) ==
  LET f == modifier(tweet.toxicity, state.threshold, state.alpha)
  IN Float(f.n * score.d + score.n * f.d, f.d * score.d)
\* ToxicityScoreModifier.modify: modifier(...) * score
modify(state, tweet, score) ==
  LET f == modifier(tweet.toxicity, state.threshold, state.alpha)
  IN Float(f.n * score.n, f.d * score.d)

scoringFrame == <<coreVars, poVars, tfVars, nfVars, psVars, lateVars>>

\* score(id) or scrap(...) is called and asks for the first tweet
ScoringCall(op) ==
  /\ sgPc = "idle"
  /\ sgOp' = op
  /\ sgPc' = "fetch"
  /\ UNCHANGED <<sgCfg, sgTweet, sgScore, sgLast, scoringFrame>>

\* the tweet arrives: scorer.score; without a modifier score returns
TweetScored(tweet) ==
  /\ sgPc = "fetch"
  /\ sgTweet' = tweet
  /\ sgScore' = ScorerScore(sgCfg.scorer, tweet)
  /\ IF sgCfg.modifier.active
       THEN sgPc' = "modify" /\ sgLast' = << >>
       ELSE IF sgOp = "score"
         THEN /\ sgPc' = "done"
              /\ sgLast' = <<tweet, ScorerScore(sgCfg.scorer, tweet)>>
         ELSE sgPc' = "transform" /\ sgLast' = << >>
  /\ UNCHANGED <<sgCfg, sgOp, scoringFrame>>

\* score_modifier.modify returns; score returns
Modified ==
  /\ sgPc = "modify"
  /\ LET score == modify(sgCfg.modifier, sgTweet, sgScore)
     IN /\ sgScore' = score
        /\ IF sgOp = "score"
             THEN sgPc' = "done" /\ sgLast' = <<sgTweet, score>>
             ELSE sgPc' = "transform" /\ UNCHANGED sgLast
  /\ UNCHANGED <<sgCfg, sgOp, sgTweet, scoringFrame>>

\* _fetch: from_tweet and to_external return, the item is yielded
ItemYielded ==
  /\ sgPc = "transform"
  /\ sgLast' = <<sgTweet, sgScore>>
  /\ sgPc' = "yielded"
  /\ UNCHANGED <<sgCfg, sgOp, sgTweet, sgScore, scoringFrame>>

\* the consumer asks for the next item: the loop of _fetch goes on
ItemNext ==
  /\ sgPc = "yielded"
  /\ sgPc' = "fetch"
  /\ sgTweet' = NoTweet
  /\ sgScore' = Float(0, 1)
  /\ sgLast' = << >>
  /\ UNCHANGED <<sgCfg, sgOp, scoringFrame>>

\* _fetch: from_tweet or to_external raises, the item is dropped
ItemDropped ==
  /\ sgPc = "transform"
  /\ sgPc' = "fetch"
  /\ sgTweet' = NoTweet
  /\ sgScore' = Float(0, 1)
  /\ UNCHANGED <<sgCfg, sgOp, sgLast, scoringFrame>>

\* the timeline is exhausted
ItemsEnd ==
  /\ sgPc = "fetch"
  /\ sgOp = "scrap"
  /\ sgPc' = "done"
  /\ UNCHANGED <<sgCfg, sgOp, sgTweet, sgScore, sgLast, scoringFrame>>

InitScoring ==
  /\ InitFace
  /\ ParIdle
  /\ ScrapIdle(<< >>, NoLimit)
  /\ ScrapBounds(NoTime, NoTime)
  /\ PostIdle
  /\ FieldsIdle
  /\ NeedsIdle(DefaultComponents)
  /\ PersistIdle(DefaultParams, MissingDir)
  /\ LateIdle
  /\ \E cfg \in Scorings : ScoringIdle(cfg)

NextScoring ==
  \/ \E op \in {"score", "scrap"} : ScoringCall(op)
  \/ \E tweet \in Tweets : TweetScored(tweet)
  \/ Modified
  \/ ItemYielded
  \/ ItemNext
  \/ ItemDropped
  \/ ItemsEnd

SpecScoring == InitScoring /\ [][NextScoring]_vars

\* ================================================================ persistence
\* __main__.py load_or_init and run, face.py _create_state_dict, _save_state
\* and _load_saved_state: the face is brought up from the state directory or
\* from its Params, reconfigured, saved on shutdown and started again.
MaxRestarts == 1

\* the order in which _load_saved_state loads the components
Families ==
  <<"processor", "poster", "scorer", "score_modifier", "scraper",
    "restriction">>
FamilySet == {Families[i] : i \in 1..Len(Families)}
ParamFamilies == FamilySet \ {"processor"}
OptionalFamilies == {"score_modifier", "restriction"}

\* the categories with a registered class, per family
Registered(family) ==
  CASE family = "processor" -> ProcessorTypes
    [] family = "poster" -> {"basic"}
    [] family = "scorer" -> ScorerTypes
    [] family = "score_modifier" -> ModifierTypes
    [] family = "scraper" -> {"timeline"}
    [] family = "restriction" -> {"toxicity"}

\* the families whose classes are Configurable and keep a state of their
\* own in the directory
ConfigurableFamilies == {"score_modifier", "restriction"}

\* the constructor arguments kept per category in the *_params maps
ParamMaps(family) ==
  CASE family = "scorer" -> {{}, {<<"relative-likes", {}>>}}
    [] family \in ConfigurableFamilies ->
         {{}, {<<"toxicity", {<<"threshold", 1>>}>>}}
    [] OTHER -> {{}}

\* face.py State without the client: every composite state of the face
Composites ==
  {[cat |-> Pairs(c), maps |-> Pairs(m)] :
     c \in [processor : {"text"}, poster : {"basic"}, scorer : ScorerTypes,
            score_modifier : ModifierTypes \cup {NoCategory},
            scraper : {"timeline"},
            restriction : {"toxicity", NoCategory}],
     m \in [poster : ParamMaps("poster"), scorer : ParamMaps("scorer"),
            score_modifier : ParamMaps("score_modifier"),
            scraper : ParamMaps("scraper"),
            restriction : ParamMaps("restriction")]}

\* the Params a face is constructed with: the defaults, both optional
\* components configured, and a scorer_type no class is registered for
ParamsSet ==
  {DefaultParams, ParamsOf("relative-likes", "toxicity", "toxicity"),
   ParamsOf("likes", NoCategory, NoCategory)}

\* _create_state_dict: the six *_type keys, None for an absent optional
\* component, and the five *_params maps
create_state_dict(state) ==
  [cat |-> {<<f, Get(state.cat, f, NoCategory)>> : f \in FamilySet},
   maps |-> {<<f, Get(state.maps, f, {})>> : f \in ParamFamilies}]

\* a descriptor written by hand: the default one with the category of one
\* family replaced by one no class is registered for
Unknown(family) ==
  [cat |-> {p \in DefaultParams.cat : p[1] # family}
             \cup {<<family, "bogus">>},
   maps |-> DefaultParams.maps]

\* the state directories a start can find
InitialDirs ==
  {MissingDir, Dir("empty", NoComposite), Dir("corrupt", NoComposite),
   Dir("saved", NoComposite)}
    \cup {Dir("saved", Unknown(f)) : f \in FamilySet}

\* the registry lookup of a category: the exception it raises, if any
for_categoryAny(family, category) == "none"
for_category(family, category) ==
  IF category \in Registered(family) THEN "none" ELSE "ValueError"

\* restrictions.py ToxicityRestrictionState: the fields of the dataclass,
\* all without a default
RestrictionStateFields == {"detoxify", "threshold"}

\* ToxicityRestriction._load_saved_state: its first statement calls the
\* dataclass with the constructor arguments of the restriction
restriction_load_saved_state(kwargs) ==
  IF Keys(kwargs) = RestrictionStateFields THEN "none" ELSE "TypeError"

\* the result of loading or building one component
Outcome(exc, component) == [exc |-> exc, component |-> component]

\* _build_generic: the class of the category is looked up and constructed
build_generic(family, category) ==
  IF category = NoCategory
    THEN Outcome("none", NoCategory)
    ELSE IF for_category(family, category) # "none"
           THEN Outcome(for_category(family, category), NoCategory)
           ELSE Outcome("none", category)

\* _load_generic: the class of the category is looked up; a Configurable
\* one loads its own saved state, any other is constructed. Without a
\* category there is no class to look up: the component is absent or the
\* default built from the Params.
load_generic(family, category, kwargs, params) ==
  IF category = NoCategory
    THEN {Outcome("none", NoCategory),
          build_generic(family, Get(params.cat, family, NoCategory))}
    ELSE IF for_category(family, category) # "none"
           THEN {Outcome(for_category(family, category), NoCategory)}
           ELSE IF family = "restriction"
                     /\ restriction_load_saved_state(kwargs) # "none"
                  THEN {Outcome(restriction_load_saved_state(kwargs),
                                NoCategory)}
                  ELSE {Outcome("none", category)}

\* _load_processor .. _load_restriction: the category is the one of the
\* descriptor, or the one of the Params when the key is missing
Category(family, dict, params) ==
  Get(dict.cat, family, Get(params.cat, family, NoCategory))
MapOf(family, dict, params) ==
  Get(dict.maps, family, Get(params.maps, family, {}))
LoadOutcomes(family, dict, params) ==
  LET category == Category(family, dict, params)
  IN  IF family = "restriction" /\ category = NoCategory
        THEN {Outcome("none", NoCategory)}
        ELSE load_generic(family, category,
                          Get(MapOf(family, dict, params), category, {}),
                          params)

\* _build_default_state: the exception of the first component that cannot
\* be built from the Params
InitExc(params) ==
  IF \E i \in 1..Len(Families) :
       build_generic(Families[i],
                     Get(params.cat, Families[i], NoCategory)).exc # "none"
    THEN "ValueError"
    ELSE "none"

psFrame == <<coreVars, poVars, tfVars, nfVars, sgVars, lateVars>>

\* load_or_init: a missing or empty directory goes straight to init
LoadOrInit ==
  /\ psPc = "idle"
  /\ psPc' = IF psDir.kind \in {"missing", "empty"} THEN "init" ELSE "load"
  /\ UNCHANGED <<psParams, psDir, psStage, psDict, psPart, psFace, psLog,
                 psSaved, psGen, psFrame>>

\* load_or_init: what follows a load that raised an Exception
NoFallback == "failed"
Fallback == "init"

LoadRaised(exc) ==
  /\ psLog' = Append(psLog, <<"load", exc, psStage>>)
  /\ psPc' = Fallback
  /\ psStage' = 0
  /\ psDict' = NoComposite
  /\ psPart' = {}
  /\ UNCHANGED <<psParams, psDir, psFace, psSaved, psGen, psFrame>>

\* _load_saved_state: the descriptor is read
LoadStateDict ==
  /\ psPc = "load" /\ psStage = 0
  /\ IF psDir.kind = "corrupt"
       THEN LoadRaised("JSONDecodeError")
       ELSE /\ psDict' = psDir.dict
            /\ psStage' = 1
            /\ UNCHANGED <<psParams, psDir, psPc, psPart, psFace, psLog,
                           psSaved, psGen, psFrame>>

\* _load_saved_state: the next component is loaded; after the last one the
\* State is constructed, returned and published
LoadComponent ==
  /\ psPc = "load" /\ psStage \in 1..Len(Families)
  /\ LET family == Families[psStage]
     IN  \E o \in LoadOutcomes(family, psDict, psParams) :
           IF o.exc # "none"
             THEN LoadRaised(o.exc)
             ELSE IF psStage < Len(Families)
                    THEN /\ psPart' = psPart \cup {<<family, o.component>>}
                         /\ psStage' = psStage + 1
                         /\ UNCHANGED <<psParams, psDir, psPc, psDict,
                                        psFace, psLog, psSaved, psGen,
                                        psFrame>>
                    ELSE /\ psFace' =
                              [cat |-> psPart
                                         \cup {<<family, o.component>>},
                               maps |-> {<<f, MapOf(f, psDict, psParams)>> :
                                           f \in ParamFamilies}]
                         /\ psLog' = Append(psLog, <<"load", "none", psStage>>)
                         /\ psPc' = "up"
                         /\ psStage' = 0
                         /\ psDict' = NoComposite
                         /\ psPart' = {}
                         /\ UNCHANGED <<psParams, psDir, psSaved, psGen,
                                        psFrame>>

\* init: the default state is built from the Params and published
InitReturns ==
  /\ psPc = "init" /\ InitExc(psParams) = "none"
  /\ psFace' = [cat |-> psParams.cat, maps |-> psParams.maps]
  /\ psLog' = Append(psLog, <<"init", "none", 0>>)
  /\ psPc' = "up"
  /\ UNCHANGED <<psParams, psDir, psStage, psDict, psPart, psSaved, psGen,
                 psFrame>>

\* init raises: load_or_init raises with it
InitRaises ==
  /\ psPc = "init" /\ InitExc(psParams) # "none"
  /\ psLog' = Append(psLog, <<"init", InitExc(psParams), 0>>)
  /\ psPc' = "failed"
  /\ UNCHANGED <<psParams, psDir, psStage, psDict, psPart, psFace, psSaved,
                 psGen, psFrame>>

\* run: shutdown cancels the task of load_or_init; CancelledError is no
\* Exception and passes the except clause
Cancelled ==
  /\ psPc \in {"load", "init"}
  /\ psLog' = Append(psLog, <<psPc, "CancelledError", psStage>>)
  /\ psPc' = "cancelled"
  /\ psStage' = 0
  /\ psDict' = NoComposite
  /\ psPart' = {}
  /\ UNCHANGED <<psParams, psDir, psFace, psSaved, psGen, psFrame>>

\* the parameters of the face set another component or another map
Reconfigure(state) ==
  /\ psPc = "up" /\ psGen < MaxRestarts
  /\ state # psFace
  /\ psFace' = state
  /\ psSaved' = NoComposite
  /\ UNCHANGED <<psParams, psDir, psPc, psStage, psDict, psPart, psLog,
                 psGen, psFrame>>

\* run: on shutdown the state is saved; the next start finds the directory
SaveAndRestart ==
  /\ psPc = "up" /\ psGen < MaxRestarts
  /\ psDir' = Dir("saved", create_state_dict(psFace))
  /\ psSaved' = psFace
  /\ psFace' = NoComposite
  /\ psPc' = "idle"
  /\ psLog' = << >>
  /\ psGen' = psGen + 1
  /\ UNCHANGED <<psParams, psStage, psDict, psPart, psFrame>>

InitPersist ==
  /\ InitFace
  /\ ParIdle
  /\ ScrapIdle(<< >>, NoLimit)
  /\ ScrapBounds(NoTime, NoTime)
  /\ PostIdle
  /\ FieldsIdle
  /\ NeedsIdle(DefaultComponents)
  /\ ScoringIdle(DefaultScoring)
  /\ LateIdle
  /\ \E params \in ParamsSet, dir \in InitialDirs : PersistIdle(params, dir)

NextPersist ==
  \/ LoadOrInit
  \/ LoadStateDict
  \/ LoadComponent
  \/ InitReturns
  \/ InitRaises
  \/ Cancelled
  \/ \E state \in Composites : Reconfigure(state)
  \/ SaveAndRestart

SpecPersist == InitPersist /\ [][NextPersist]_vars

\* ===================================================== ToxicityModelLoader
\* models.py: get and release run in the threads of background(); each
\* thread calls get, keeps the model, and calls release afterwards.  The
\* statements inside `with cls.lock` are separate steps.
loaderFrame ==
  <<coreVars, poVars, tfVars, nfVars, sgVars, psVars, mdVars, rnVars>>

\* variant of Lock.acquire that never blocks
LockFreeAlways == TRUE

\* threading.Lock: acquire blocks while another thread holds the lock
LockFree == mlLock = 0

\* get is called: with cls.lock
GetAcquire(t) ==
  /\ mlPc[t] = "idle" /\ mlGets < MaxGets
  /\ LockFree
  /\ mlLock' = t
  /\ mlGets' = mlGets + 1
  /\ mlPc' = [mlPc EXCEPT ![t] = "get_test"]
  /\ UNCHANGED <<mlModel, mlCount, mlSeen, mlHeld, mlLoads, loaderFrame>>

\* get: if cls.model is None
GetTest(t) ==
  /\ mlPc[t] = "get_test"
  /\ mlSeen' = [mlSeen EXCEPT ![t] = (mlModel = 0)]
  /\ mlPc' = [mlPc EXCEPT ![t] = IF mlModel = 0 THEN "get_load" ELSE "get_inc"]
  /\ UNCHANGED <<mlModel, mlCount, mlLock, mlHeld, mlLoads, mlGets,
                 loaderFrame>>

\* get: cls.model = Detoxify("multilingual") returns a new model
GetLoad(t) ==
  /\ mlPc[t] = "get_load"
  /\ mlLoads' = mlLoads + 1
  /\ mlModel' = mlLoads + 1
  /\ mlPc' = [mlPc EXCEPT ![t] = "get_inc"]
  /\ UNCHANGED <<mlCount, mlLock, mlSeen, mlHeld, mlGets, loaderFrame>>

\* get: Detoxify("multilingual") raises; the with statement gives the lock
\* back and get raises
GetLoadRaises(t) ==
  /\ mlPc[t] = "get_load"
  /\ mlLock' = IF mlLock = t THEN 0 ELSE mlLock
  /\ mlPc' = [mlPc EXCEPT ![t] = "failed"]
  /\ UNCHANGED <<mlModel, mlCount, mlSeen, mlHeld, mlLoads, mlGets,
                 loaderFrame>>

\* get: cls.reference_count += 1; return cls.model; the lock is given back
GetReturn(t) ==
  /\ mlPc[t] = "get_inc"
  /\ mlCount' = mlCount + 1
  /\ mlHeld' = [mlHeld EXCEPT ![t] = mlModel]
  /\ mlLock' = IF mlLock = t THEN 0 ELSE mlLock
  /\ mlPc' = [mlPc EXCEPT ![t] = "holding"]
  /\ UNCHANGED <<mlModel, mlSeen, mlLoads, mlGets, loaderFrame>>

\* release is called by a thread whose get has returned: with cls.lock
ReleaseAcquire(t) ==
  /\ mlPc[t] = "holding"
  /\ LockFree
  /\ mlLock' = t
  /\ mlPc' = [mlPc EXCEPT ![t] = "rel_dec"]
  /\ UNCHANGED <<mlModel, mlCount, mlSeen, mlHeld, mlLoads, mlGets,
                 loaderFrame>>

\* release: cls.reference_count -= 1
ReleaseDec(t) ==
  /\ mlPc[t] = "rel_dec"
  /\ mlCount' = mlCount - 1
  /\ mlPc' = [mlPc EXCEPT ![t] = "rel_test"]
  /\ UNCHANGED <<mlModel, mlLock, mlSeen, mlHeld, mlLoads, mlGets,
                 loaderFrame>>

\* release: if cls.reference_count == 0: cls.model = None; the lock is
\* given back and the thread may call get again
ReleaseReturn(t) ==
  /\ mlPc[t] = "rel_test"
  /\ mlModel' = IF mlCount = 0 THEN 0 ELSE mlModel
  /\ mlHeld' = [mlHeld EXCEPT ![t] = 0]
  /\ mlLock' = IF mlLock = t THEN 0 ELSE mlLock
  /\ mlPc' = [mlPc EXCEPT ![t] = "idle"]
  /\ UNCHANGED <<mlCount, mlSeen, mlLoads, mlGets, loaderFrame>>

InitLoader ==
  /\ InitFace
  /\ ParIdle
  /\ ScrapIdle(<< >>, NoLimit)
  /\ ScrapBounds(NoTime, NoTime)
  /\ HostIdle

NextLoader ==
  \E t \in Threads :
    \/ GetAcquire(t)
    \/ GetTest(t)
    \/ GetLoad(t)
    \/ GetLoadRaises(t)
    \/ GetReturn(t)
    \/ ReleaseAcquire(t)
    \/ ReleaseDec(t)
    \/ ReleaseReturn(t)

SpecLoader == InitLoader /\ [][NextLoader]_vars

\* =========================================== ToxicityScoreModifier.modifier
\* scoring/modifiers.py 128-147 on the arguments k / MaxGrid.  The factor is
\* a float; the model keeps its place in [0, 1]: "zero", "low" (inside
\* (0, 1/2)), "mid" (1/2), "high" (inside (1/2, 1)) or "one".
modifierFrame ==
  <<coreVars, poVars, tfVars, nfVars, sgVars, psVars, mlVars, rnVars>>
Grid == 0..MaxGrid

\* np.clip(v, 0, 1)
clip(v) == IF v < 0 THEN 0 ELSE IF v > MaxGrid THEN MaxGrid ELSE v

\* variant in which a division by zero gives a float instead of raising
DividesNever(alpha) == TRUE

\* 1 / (1 - alpha) on Python floats: ZeroDivisionError when 1 - alpha is 0.0
Divides(alpha) == MaxGrid - clip(alpha) # 0

\* lines 134-141: the arguments for which modifier returns before it
\* computes the exponents
Special(x, threshold, alpha) ==
  \/ x = 0 \/ x = MaxGrid
  \/ threshold = 0 \/ threshold = MaxGrid
  \/ alpha = MaxGrid /\ x = threshold

\* the value returned at lines 135, 137, 139 and 141
SpecialValue(x, threshold, alpha) ==
  IF x = 0 THEN "one"
  ELSE IF x = MaxGrid THEN "zero"
  ELSE IF threshold = 0 THEN "zero"
  ELSE "one"

\* lines 143-147 for 0 < x, threshold < 1 and alpha < 1: threshold **
\* inner_exponent is 1/2, so inner_value is below, at or above 1/2 as x is
\* below, at or above threshold; the quotient inner_value / (1 -
\* inner_value) is then below, at or above 1, and so is its power with the
\* exponent 1 / (1 - alpha) >= 1; the factor is 1 / (1 + power)
GeneralValue(x, threshold) ==
  IF x < threshold THEN "high" ELSE IF x = threshold THEN "mid" ELSE "low"

\* modifier returns from one of the branches of lines 134-141
ModifierSpecial ==
  /\ mdPc = "called"
  /\ Special(clip(mdX), clip(mdThreshold), clip(mdAlpha))
  /\ mdOut' = SpecialValue(clip(mdX), clip(mdThreshold), clip(mdAlpha))
  /\ mdPc' = "returned"
  /\ UNCHANGED <<mdX, mdThreshold, mdAlpha, modifierFrame>>

\* no branch of lines 134-141 is taken; inner_exponent and outer_exponent
\* are computed (143-144)
ModifierExponents ==
  /\ mdPc = "called"
  /\ ~Special(clip(mdX), clip(mdThreshold), clip(mdAlpha))
  /\ Divides(mdAlpha)
  /\ mdPc' = "exponents"
  /\ UNCHANGED <<mdX, mdThreshold, mdAlpha, mdOut, modifierFrame>>

\* line 144 raises ZeroDivisionError
ModifierRaises ==
  /\ mdPc = "called"
  /\ ~Special(clip(mdX), clip(mdThreshold), clip(mdAlpha))
  /\ ~Divides(mdAlpha)
  /\ mdPc' = "raised"
  /\ UNCHANGED <<mdX, mdThreshold, mdAlpha, mdOut, modifierFrame>>

\* lines 145-147
ModifierGeneral ==
  /\ mdPc = "exponents"
  /\ mdOut' = GeneralValue(clip(mdX), clip(mdThreshold))
  /\ mdPc' = "returned"
  /\ UNCHANGED <<mdX, mdThreshold, mdAlpha, modifierFrame>>

InitModifier ==
  /\ InitFace
  /\ ParIdle
  /\ ScrapIdle(<< >>, NoLimit)
  /\ ScrapBounds(NoTime, NoTime)
  /\ PostIdle
  /\ FieldsIdle
  /\ NeedsIdle(DefaultComponents)
  /\ ScoringIdle(DefaultScoring)
  /\ PersistIdle(DefaultParams, MissingDir)
  /\ LoaderIdle
  /\ RunIdle
  /\ \E x \in Grid, threshold \in Grid, alpha \in Grid :
       ModifierIdle(x, threshold, alpha)

NextModifier ==
  \/ ModifierSpecial
  \/ ModifierExponents
  \/ ModifierRaises
  \/ ModifierGeneral

SpecModifier == InitModifier /\ [][NextModifier]_vars

\* ============================================================ run, shutdown
\* __main__.py run (70-115) and shutdown (26-38): run() is the main task;
\* server_task runs the server, init_task runs load_or_init (the actions of
\* the persistence section).  run() is modelled at its awaits.
Tasks == <<"server", "init">>
runFrame == <<coreVars, poVars, tfVars, nfVars, sgVars, mlVars, mdVars>>

RunEnded == rnPc \in {"returned", "raised"}

\* task.done()
Finished(t) ==
  IF t = "server" THEN rnServer # "running"
  ELSE psPc \in {"up", "failed", "cancelled"}

\* the task has ended with an exception other than its cancellation
TaskRaised(t) ==
  IF t = "server" THEN rnServer = "raised" ELSE psPc = "failed"

\* init_task.done() and not init_task.cancelled() and
\* init_task.exception() is None
InitOk == psPc = "up"

\* for task in done: task.result() raises the exception of a task
ResultsRaise(done) == \E t \in done : TaskRaised(t)

\* lines 103-110 for the given done: where run() goes after the loop
\* over pending
AfterPending(done) ==
  IF ResultsRaise(done) THEN "raised"
  ELSE IF InitOk THEN "save"
  ELSE "returned"

\* the tasks of pending behind those that have ended: cancel() does nothing
\* to a task that has ended, and awaiting it does not suspend run()
RECURSIVE Unfinished(_)
Unfinished(pending) ==
  IF pending = << >> THEN << >>
  ELSE IF Finished(Head(pending)) THEN Unfinished(Tail(pending))
  ELSE pending

\* lines 94-110: the loop over pending goes on with the given tasks, up to
\* its next await of a task that has not ended
RunOn(pending, done, req) ==
  LET rest == Unfinished(pending)
  IN /\ rnPending' = rest
     /\ IF rest = << >>
        THEN /\ rnPc' = AfterPending(done)
             /\ rnCancelReq' = req
        ELSE /\ rnPc' = "await"
             /\ rnCancelReq' = req \cup {Head(rest)}

\* the tasks passed to asyncio.wait that have ended, in the order of tasks
InOrder(set) == SelectSeq(Tasks, LAMBDA t : t \in set)

\* asyncio.wait(tasks, return_when=FIRST_EXCEPTION) returns: a task has
\* raised, or both have ended
WaitReturns ==
  /\ rnPc = "wait"
  /\ \/ \E i \in 1..Len(Tasks) : TaskRaised(Tasks[i])
     \/ \A i \in 1..Len(Tasks) : Finished(Tasks[i])
  /\ LET done == {Tasks[i] : i \in {j \in 1..Len(Tasks) : Finished(Tasks[j])}}
     IN /\ rnDone' = done
        /\ RunOn(InOrder({Tasks[1], Tasks[2]} \ done), done, rnCancelReq)
  /\ UNCHANGED <<rnServer, rnSignal, rnSaved, rnCleaned, psVars, runFrame>>

\* await task returns or raises (CancelledError: pass; Exception: logged)
AwaitReturns ==
  /\ rnPc = "await"
  /\ Finished(Head(rnPending))
  /\ RunOn(Tail(rnPending), rnDone, rnCancelReq)
  /\ UNCHANGED <<rnServer, rnSignal, rnDone, rnSaved, rnCleaned, psVars,
                 runFrame>>

\* SIGINT or SIGTERM: shutdown() cancels every task, run() included.  In
\* asyncio.wait the CancelledError gives done = [], pending = tasks; at
\* await task it is passed; at the await of save or cleanup it ends run().
Signal ==
  /\ ~rnSignal /\ ~RunEnded
  /\ rnSignal' = TRUE
  /\ LET req == rnCancelReq
                  \cup {Tasks[i] : i \in {j \in 1..Len(Tasks) :
                                            ~Finished(Tasks[j])}}
     IN CASE rnPc = "wait" ->
               /\ rnDone' = {}
               /\ RunOn(Tasks, {}, req)
          [] rnPc = "await" ->
               /\ RunOn(Tail(rnPending), rnDone, req)
               /\ UNCHANGED rnDone
          [] OTHER ->
               /\ rnPc' = "raised"
               /\ rnCancelReq' = req
               /\ UNCHANGED <<rnDone, rnPending>>
  /\ UNCHANGED <<rnServer, rnSaved, rnCleaned, psVars, runFrame>>

\* server.run returns or raises of its own
ServerEnds(how) ==
  /\ ~RunEnded
  /\ rnServer = "running" /\ "server" \notin rnCancelReq
  /\ how \in {"returned", "raised"}
  /\ rnServer' = how
  /\ UNCHANGED <<rnPc, rnSignal, rnCancelReq, rnDone, rnPending, rnSaved,
                 rnCleaned, psVars, runFrame>>

\* server_task after cancel(): CancelledError ends it as cancelled, unless
\* server.run handles it and returns or raises
ServerCancelled(how) ==
  /\ ~RunEnded
  /\ rnServer = "running" /\ "server" \in rnCancelReq
  /\ rnServer' = how
  /\ UNCHANGED <<rnPc, rnSignal, rnCancelReq, rnDone, rnPending, rnSaved,
                 rnCleaned, psVars, runFrame>>

\* init_task takes a step of load_or_init
InitTaskStep ==
  /\ ~RunEnded
  /\ "init" \notin rnCancelReq
  /\ \/ LoadOrInit
     \/ LoadStateDict
     \/ LoadComponent
     \/ InitReturns
     \/ InitRaises

\* init_task after cancel(): CancelledError is raised at its await, or
\* before its first step
InitTaskCancelled ==
  /\ ~RunEnded
  /\ "init" \in rnCancelReq
  /\ \/ Cancelled
     \/ /\ psPc = "idle"
        /\ psPc' = "cancelled"
        /\ UNCHANGED <<psParams, psDir, psStage, psDict, psPart, psFace,
                       psLog, psSaved, psGen, psFrame>>

\* await face.save(state_dir) returns
SaveReturns ==
  /\ rnPc = "save"
  /\ psDir' = Dir("saved", create_state_dict(psFace))
  /\ psSaved' = psFace
  /\ rnSaved' = TRUE
  /\ rnPc' = "cleanup"
  /\ UNCHANGED <<rnServer, rnSignal, rnCancelReq, rnDone, rnPending,
                 rnCleaned, psParams, psPc, psStage, psDict, psPart, psFace,
                 psLog, psGen, runFrame>>

\* await face.cleanup() returns, and run() with it
CleanupReturns ==
  /\ rnPc = "cleanup"
  /\ rnCleaned' = TRUE
  /\ rnPc' = "returned"
  /\ UNCHANGED <<rnServer, rnSignal, rnCancelReq, rnDone, rnPending,
                 rnSaved, psVars, runFrame>>

NextRun ==
  \/ WaitReturns
  \/ AwaitReturns
  \/ Signal
  \/ \E how \in {"returned", "raised"} : ServerEnds(how)
  \/ \E how \in {"cancelled", "returned", "raised"} : ServerCancelled(how)
  \/ InitTaskStep
  \/ InitTaskCancelled
  \/ SaveReturns
  \/ CleanupReturns

SpecRun == InitPersist /\ [][NextRun]_vars

\* =================================================================== claims
InLoading(c) == scPc[c] \in LoadingPcs

C2_OneSnapshot ==
  \A r \in Readers :
    (rdKind[r] = "score" /\ rdPc[r] = "done") => rdUse[r] = rdSnap[r]

\* C3: rollback.  The steps of a set_config up to and including a failing
\* parameter set (or copy) change neither which state is current, nor the
\* content of the current state, nor the config get_config reports for it,
\* nor any state other than the call's own copy; the failing step leaves
\* the readiness flag true.
C3_Rollback ==
  [][\A c \in Calls :
       /\ (scDone'[c] # scDone[c] \/ (InLoading(c) /\ scPc'[c] = "failed"))
            => /\ cur' = cur
               /\ heap'[cur'] = heap[cur]
               /\ ConfigOf(heap'[cur']) = ConfigOf(heap[cur])
               /\ \A i \in 1..Len(heap) : i # scStaged[c] => heap'[i] = heap[i]
       /\ (InLoading(c) /\ scPc'[c] = "failed") => ready' = TRUE]_vars

\* a set_config failed at its second item, after the first item was applied
\* to the copy; the copy differs from the current state
C3_Witness ==
  \E c \in Calls :
    /\ scPc[c] = "failed" /\ scErr[c] = "invalid_config"
    /\ scDone[c] >= 1
    /\ heap[scStaged[c]].scoring_type # heap[cur].scoring_type
    /\ cur = scSrc[c]
    /\ ready

C5_NotReadyFails ==
  [][\A r \in Readers :
       (rdPc[r] = "idle" /\ rdPc'[r] # "idle" /\ ~ready)
         => (rdPc'[r] = "failed" /\ rdErr'[r] = "not_ready" /\ rdCalls'[r] = 0)]_vars

\* a scrap was refused during a reconfiguration that is still running
C5_Witness ==
  \E r \in Readers :
    /\ rdKind[r] = "scrap" /\ rdPc[r] = "failed" /\ rdErr[r] = "not_ready"
    /\ rdCalls[r] = 0
    /\ \E c \in Calls : InLoading(c)

\* C6: readers block neither a reconfiguration nor each other: whatever the
\* positions of the post / score / scrap calls, a set_config that has been
\* issued can take its next step, a set_config can be issued, and a further
\* reader can start.
C6_ReadersDoNotBlock ==
  /\ \A c \in Calls :
       (scPc[c] \notin {"idle", "done", "failed"}) => ENABLED set_config(c)
  /\ \A c \in Calls :
       (built /\ scPc[c] = "idle" /\ Quiet(c) /\ c <= MaxSeqCalls
          /\ (c > 1 => scPc[c - 1] # "idle"))
         => ENABLED (\E config \in Configs : SeqEnter(c, config))
  /\ \A r \in Readers :
       (built /\ rdPc[r] = "idle" /\ (r > 1 => rdPc[r - 1] # "idle"))
         => ENABLED (\E kind \in Kinds : ReaderCall(r, kind))

\* a set_config has run from its first to its last step while a scrap
\* stream (suspended on its consumer) and a score (suspended on its fetch),
\* both started on the superseded state, are still in progress
C6_Witness ==
  \E c \in Calls : \E r1 \in Readers : \E r2 \in Readers :
    /\ scPc[c] = "done"
    /\ rdKind[r1] = "scrap" /\ rdPc[r1] = "scrap_yield" /\ rdSnap[r1] = scOld[c]
    /\ rdKind[r2] = "score" /\ rdPc[r2] = "fetching" /\ rdSnap[r2] = scOld[c]

\* readiness values published by one caller of _set_ready, in order
ReadyBy(c) ==
  LET mine == SelectSeq(pub["ready"], LAMBDA m : m.by = c)
  IN [i \in 1..Len(mine) |-> mine[i].msg]

\* C7: every set_config publishes exactly two readiness notifications, False
\* then True, whether it succeeds or fails; the initial build publishes
\* exactly one True.
C7_TwoReadyNotifications ==
  /\ ReadyBy(0) = IF built THEN <<TRUE>> ELSE << >>
  /\ \A c \in Calls :
       /\ scPc[c] = "idle" => ReadyBy(c) = << >>
       /\ InLoading(c) => ReadyBy(c) = <<FALSE>>
       /\ scPc[c] \in {"getting", "done", "failed"} => ReadyBy(c) = <<FALSE, TRUE>>

\* one set_config has succeeded and another has failed
C7_Witness ==
  \E c \in Calls : \E d \in Calls :
    /\ scPc[c] = "done" /\ ReadyBy(c) = <<FALSE, TRUE>>
    /\ scPc[d] = "failed" /\ scErr[d] = "invalid_config"
    /\ ReadyBy(d) = <<FALSE, TRUE>>

\* messages published on the topic of s after its queue was registered
PublishedSince(s) ==
  [i \in 1..(Len(pub[subTopic[s]]) - subFrom[s]) |->
     pub[subTopic[s]][subFrom[s] + i].msg]

IsPrefix(a, b) == Len(a) <= Len(b) /\ a = SubSeq(b, 1, Len(a))

\* C8: fan-out and order: what a subscriber has received, followed by what
\* waits in its queue, is exactly the sequence of messages published on its
\* topic since its queue was registered; a subscriber that has stopped has
\* received a prefix of that sequence.
C8_FanOutInOrder ==
  \A s \in Subs :
    /\ subPc[s] = "waiting" =>
         received[s] \o queues[subTopic[s]][s] = PublishedSince(s)
    /\ subPc[s] = "closed" => IsPrefix(received[s], PublishedSince(s))

\* two subscribers of one topic, registered at different times: one has
\* consumed two messages, the slower one still has messages queued
C8_Witness ==
  \E s \in Subs : \E t \in Subs :
    /\ s # t /\ subPc[s] = "waiting" /\ subPc[t] = "waiting"
    /\ subTopic[s] = subTopic[t]
    /\ subFrom[s] < subFrom[t]
    /\ Len(received[s]) >= 2
    /\ Len(queues[subTopic[t]][t]) >= 2
    /\ received[t] = << >>

\* configs published by one set_config call
ConfigBy(c) ==
  LET mine == SelectSeq(pub["config"], LAMBDA m : m.by = c)
  IN [i \in 1..Len(mine) |-> mine[i].msg]

C10_CleanUnsubscribe ==
  /\ \A s \in Subs :
       subPc[s] = "closed" =>
         (subTopic[s] \notin DOMAIN queues \/ s \notin DOMAIN queues[subTopic[s]])
  /\ \A t \in DOMAIN queues :
       \E s \in Subs : subPc[s] = "waiting" /\ subTopic[s] = t

C14_EqualValueNoOp ==
  \A i \in 1..Len(pLog) :
    /\ (/\ pLog[i].op = "set"
        /\ ~GetRaises(pLog[i].before, pLog[i].name)
        /\ ParamGet(pLog[i].before, pLog[i].name) = pLog[i].value)
       => /\ ~pLog[i].invoked
          /\ pLog[i].after = pLog[i].before
          /\ pLog[i].err = "none"
    /\ (/\ i > 1
        /\ pLog[i].op = "set" /\ pLog[i - 1].op = "set"
        /\ pLog[i].name = pLog[i - 1].name
        /\ pLog[i].value = pLog[i - 1].value
        /\ pLog[i - 1].err = "none")
       => /\ ~pLog[i].invoked
          /\ pLog[i].after = pLog[i].before

\* the scorer was switched to retweets by a set that invoked _set, and the
\* same set was then repeated
C14_Witness ==
  /\ Len(pLog) >= 2
  /\ pLog[1].op = "set" /\ pLog[1].name = "scorer"
  /\ pLog[1].value = TypeValue("retweets", {})
  /\ pLog[1].invoked /\ pLog[1].err = "none"
  /\ pLog[2].op = "set" /\ pLog[2].name = "scorer"
  /\ pLog[2].value = pLog[1].value
  /\ ~pLog[2].invoked

\* C15: a set_config that fails while it applies the items of its config,
\* because the set of a parameter raises or because a key names no
\* parameter, fails with INVALID_CONFIG_ERROR; its copy never becomes the
\* current state and it publishes no config notification.
C15_InvalidConfig ==
  \A c \in Calls :
    (scPc[c] = "failed" /\ scStaged[c] # 0 /\ scOld[c] = 0)
      => /\ scErr[c] = "invalid_config"
         /\ cur # scStaged[c]
         /\ ConfigBy(c) = << >>

\* one set_config failed at a key that names no parameter, another one at
\* its second item, whose set raised after the first item had been applied
C15_Witness ==
  \E c \in Calls : \E d \in Calls :
    /\ scPc[c] = "failed" /\ scErr[c] = "invalid_config"
    /\ scStaged[c] # 0
    /\ scTodo[c][scDone[c] + 1].name = "nokey"
    /\ scPc[d] = "failed" /\ scErr[d] = "invalid_config"
    /\ scDone[d] = 1
    /\ scTodo[d][2].name = "scraper"
    /\ heap[scStaged[d]].scoring_type = "retweets"

Wrapper(op) == IF op = "get" THEN "parameter_get" ELSE "parameter_set"

ValidIds(up) ==
  SelectSeq([i \in 1..Len(up) |-> i], LAMBDA i : up[i] = "ok")

Min(a, b) == IF a <= b THEN a ELSE b

\* C17: a scrap that ran to its end has emitted the first min(N, V) of the
\* V tweets that convert, in timeline order, whatever number of tweets was
\* dropped on the way; without a limit it has emitted all V.
C17_LimitCountsEmitted ==
  skPc = "done" =>
    LET valid == ValidIds(skUp)
    IN IF skLimit = NoLimit
       THEN skOut = valid
       ELSE skOut = SubSeq(valid, 1, Min(skLimit, Len(valid)))

\* scrap(limit = 1) over a timeline of three convertible candidates whose
\* first one failed to convert
C17_Witness ==
  /\ skPc = "done"
  /\ skLimit = 1
  /\ skUp = <<"bad", "ok", "ok">>
  /\ skSkipped = {1}
  /\ skOut = <<2>>

\* C18: from the moment scrap has emitted its limit-th item, no
\* get_home_timeline request is issued any more.
C18_NoRequestAfterLimit ==
  [][(skLimit >= 1 /\ Len(skOut) >= skLimit) => skReqs' = skReqs]_vars

\* the limit-th item was the last tweet of a page that reported a
\* next_token, and the scrap ended without a request for the next page
C18_Witness ==
  /\ skPc = "done"
  /\ skLimit >= 1
  /\ Len(skOut) = skLimit
  /\ skPos < Len(skUp)
  /\ skUp[skPos + 1] = "break"
  /\ Len(skReqs) = 1

\* C19: when the conversion of a tweet raises, that tweet is dropped,
\* nothing is raised to the consumer and the pipeline goes on with the next
\* tweet (or the next page, or ends with the timeline); when get_me or
\* get_home_timeline raises, the scrap ends with that exception raised to
\* the consumer.
C19_SkipOrPropagate ==
  [][/\ (skPc = "transform" /\ skUp[skPos] = "bad" /\ skCancel' = skCancel)
         => /\ skSkipped' = skSkipped \cup {skPos}
            /\ skOut' = skOut
            /\ skErr' = "none"
            /\ skPos' = Advance(skUp, skPos + 1)
            /\ skPc' \in {"score", "page", "done"}
     /\ (skPc \in {"me", "page"} /\ skRaised' # skRaised)
         => /\ skPc' = "failed"
            /\ skErr' = "upstream"
            /\ skOut' = skOut
            /\ skReqs' = skReqs]_vars

\* a tweet was dropped, the next one was emitted, and the request for the
\* second page then raised
C19_Witness ==
  /\ skUp = <<"bad", "ok", "break">>
  /\ skSkipped = {1}
  /\ skOut = <<2>>
  /\ skRaised = {"transform", "page"}
  /\ skPc = "failed"
  /\ skErr = "upstream"

\* C20: once the consumer has closed or cancelled the scrap stream, at its
\* yield or while get_me, a page or a conversion is awaited, no further
\* get_home_timeline request is issued, the read access is given back, no
\* tweet is recorded as dropped because of it and no error is raised as the
\* outcome of the pipeline.
C20_StopIsClean ==
  skCancel # NoCancel =>
    /\ skPc = "cancelled"
    /\ Len(skReqs) = skCancel.reqs
    /\ ~skLock
    /\ skSkipped = skCancel.skipped
    /\ skErr = "none"

\* the consuming task was cancelled while the first tweet of a page with a
\* next_token was being converted
C20_Witness ==
  /\ skCancel.at = "transform"
  /\ skPc = "cancelled"
  /\ skPos = 1
  /\ Len(skUp) >= 2
  /\ skUp[2] = "break"
  /\ skOut = << >>
  /\ Len(skReqs) = 1


\* the client calls that change something at the network side
Mutations == {"media_upload", "create_tweet"}

\* C21: a post call whose content the active restriction rejects fails with
\* the ValueError and has issued no media_upload and no create_tweet; a call
\* that has issued one of them is in BasicPoster.post or past it, and its
\* restriction check passed or no restriction is active.
C21_RejectedPostsNothing ==
  /\ poVerdict = "reject"
       => /\ poPc = "failed"
          /\ poErr = "ValueError"
          /\ poNet = << >>
  /\ (\E i \in 1..Len(poNet) : poNet[i] \in Mutations)
       => /\ poPc \in {"upload", "create", "me", "done", "failed"}
          /\ \/ poVerdict = "pass"
             \/ poVerdict = "inactive" /\ poRestr = NoRestriction

C21_Witness ==
  /\ poVerdict = "reject"
  /\ poData.image
  /\ poData.text >= poRestr
  /\ poPc = "failed"

\* the fields of one group, as a set
FieldSet(v) == Elems(Items(v))
SameFields(x, y) == \A g \in Groups : FieldSet(x[g]) = FieldSet(y[g])
Evaluated == tfLaw \in Laws /\ tfStep = Len(Additions(tfLaw))

\* C23: compared group by group as sets, A + B = B + A, (A + B) + C =
\* A + (B + C), A + A = A and (A + B) + A = A + B; a group that is None or
\* empty in both operands of an addition is None in its result.
C23_AddLaws ==
  /\ Evaluated /\ tfLaw \in {"commute", "associate"}
       => SameFields(tfReg["L"], tfReg["R"])
  /\ Evaluated /\ tfLaw = "repeat" => SameFields(tfReg["L"], tfReg["A"])
  /\ Evaluated /\ tfLaw = "absorb" => SameFields(tfReg["L"], tfReg["T"])
  /\ tfLast # << >>
       => \A g \in Groups :
            /\ FieldSet(tfLast[3][g]) =
                 FieldSet(tfLast[1][g]) \cup FieldSet(tfLast[2][g])
            /\ FieldSet(tfLast[1][g]) \cup FieldSet(tfLast[2][g]) = {}
                 => tfLast[3][g] = None

C23_Witness ==
  /\ Evaluated
  /\ tfLaw = "associate"
  /\ tfReg["A"].tweet_fields = List(<<"id", "id">>)
  /\ tfReg["B"].tweet_fields = List(<< >>)
  /\ tfReg["B"].expansions = None
  /\ tfReg["C"].tweet_fields = List(<<"text", "id">>)
  /\ tfReg["L"].tweet_fields # tfReg["R"].tweet_fields
  /\ tfReg["L"].expansions = None

\* the keyword arguments kwargs ask for every field of needs
Covers(kwargs, needs) ==
  \A g \in Groups :
    FieldSet(needs[g]) \subseteq
      (IF g \in DOMAIN kwargs THEN Elems(kwargs[g]) ELSE {})
CoversAll(kwargs, whos) ==
  \A who \in whos : \A n \in NeededFields(nfCfg, who) : Covers(kwargs, n)
\* the requests that fetch tweets
TweetFetches == {"get_tweet", "get_home_timeline"}

SameFloat(a, b) == a.n * b.d = b.n * a.d
Times(a, b) == Float(a.n * b.n, a.d * b.d)
\* the metric the active scorer reads, 0 for a missing impression count
Metric(scorer, tweet) ==
  CASE scorer = "relative-likes" -> tweet.likes
    [] scorer = "relative-retweets" -> tweet.retweets
    [] OTHER -> Max(tweet.impressions, 0)
BaseScore(tweet) ==
  Float(Metric(sgCfg.scorer, tweet), Max(tweet.followers, 1))
Factor(tweet) ==
  modifier(tweet.toxicity, sgCfg.modifier.threshold, sgCfg.modifier.alpha)

\* C24: the score returned by score, and the score of every item scrap
\* yields, is the base score of the active scorer for that tweet when no
\* modifier is active, and that base score times the factor of the modifier
\* when one is active.
C24_ScoreComposition ==
  sgLast # << >>
    => SameFloat(sgLast[2],
                 IF sgCfg.modifier.active
                   THEN Times(Factor(sgLast[1]), BaseScore(sgLast[1]))
                   ELSE BaseScore(sgLast[1]))

C24_Witness ==
  /\ sgLast # << >>
  /\ sgOp = "scrap"
  /\ sgCfg.modifier.active
  /\ sgCfg.scorer = "relative-retweets"
  /\ sgLast[1].retweets = 2 /\ sgLast[1].followers = 2
  /\ sgLast[1].toxicity = 1 /\ sgCfg.modifier.threshold = 1
  /\ sgCfg.modifier.alpha = 1
  /\ SameFloat(sgLast[2], Float(1, 2))

\* C25: after a set_config that succeeded, the client of the state the call
\* made current is the same object as the client of the state it superseded.
C25_ClientShared ==
  \A c \in Calls :
    (scPc[c] = "done" /\ scErr[c] = "none")
      => heap[scStaged[c]].client = heap[scOld[c]].client

\* C26: a state handed to _destroy_state is no longer the current state, and
\* no post / score / scrap call that started on it is still in progress.
C26_DestroyAfterReaders ==
  \A s \in destroyed :
    /\ s # cur
    /\ \A r \in Readers :
         rdPc[r] \notin {"idle", "done", "failed"} => rdSnap[r] # s

\* C27: the face starts not ready and is ready only once its initial state
\* has been built; every set_config that has entered _loading leaves it with
\* the face ready again, whether it succeeds, fails in a parameter set or
\* fails in the copy.
C27_LoadingNotTerminal ==
  /\ ~ready
  /\ [](ready => built)
  /\ \A c \in Calls : InLoading(c) ~> (~InLoading(c) /\ ready)

C27_Witness ==
  /\ ready
  /\ \E c \in Calls : scPc[c] = "failed" /\ scErr[c] = "copy_error"
  /\ \E c \in Calls : scPc[c] = "failed" /\ scErr[c] = "invalid_config"

\* the loads and inits of this start that returned
Successes == {i \in 1..Len(psLog) : psLog[i][2] = "none"}
\* the loads of this start that raised an Exception
FailedLoads ==
  {i \in 1..Len(psLog) :
     psLog[i][1] = "load" /\ psLog[i][2] \notin {"none", "CancelledError"}}

\* C28: load_or_init recovers from a failing load. A missing or empty state
\* directory is initialised without any load; a load that raises an
\* Exception is followed by init; when load_or_init has returned, exactly
\* one load or init has succeeded, the last one called, and a state is
\* published; it raises only with a failing init.
C28_LoadOrInitRecovers ==
  /\ psDir.kind \in {"missing", "empty"}
       => \A i \in 1..Len(psLog) : psLog[i][1] = "init"
  /\ \A i \in FailedLoads :
       IF i = Len(psLog) THEN psPc = "init" ELSE psLog[i + 1][1] = "init"
  /\ psPc = "up"
       => /\ Successes = {Len(psLog)}
          /\ Len(psLog) >= 1
          /\ psFace # NoComposite
  /\ psPc = "failed"
       => /\ Len(psLog) >= 1
          /\ psLog[Len(psLog)][1] = "init"
          /\ psLog[Len(psLog)][2] # "none"

\* a corrupt descriptor made the load raise, init brought the face up
C28_Witness ==
  /\ psPc = "up"
  /\ psDir.kind = "corrupt"
  /\ Len(psLog) = 2
  /\ psLog[1][1] = "load" /\ psLog[1][2] = "JSONDecodeError"
  /\ psLog[2] = <<"init", "none", 0>>
  /\ psFace = [cat |-> psParams.cat, maps |-> psParams.maps]

\* the descriptor of the directory names, for some family, a category no
\* class is registered for
NamesUnregistered(dict) ==
  \E f \in FamilySet :
    /\ Has(dict.cat, f)
    /\ Get(dict.cat, f, NoCategory) \notin Registered(f) \cup {NoCategory}

SameCategories(a, b) ==
  \A f \in FamilySet \ OptionalFamilies :
    Get(a.cat, f, NoCategory) = Get(b.cat, f, NoCategory)
SameMaps(a, b) ==
  \A f \in ParamFamilies : Get(a.maps, f, {}) = Get(b.maps, f, {})
SameOptionals(a, b) ==
  \A f \in OptionalFamilies :
    (Get(a.cat, f, NoCategory) = NoCategory)
      <=> (Get(b.cat, f, NoCategory) = NoCategory)

\* C30: persistence round trip. Loading a directory saved from a composite
\* state raises no Exception, and the state the face comes up with has the
\* same category in every family, the same parameter maps, and each
\* optional component absent exactly when it was absent at save.
C30_RoundTrip ==
  psSaved # NoComposite
    => /\ FailedLoads = {}
       /\ psPc = "up"
            => /\ SameCategories(psFace, psSaved)
               /\ SameMaps(psFace, psSaved)
               /\ SameOptionals(psFace, psSaved)

\* the config submitted by the call names a scoring or scraping type that
\* has no component
NamesUnknownType(c) ==
  \E i \in 1..Len(scTodo[c]) :
    \/ scTodo[c][i].name = "scorer"
         /\ scTodo[c][i].value.type \notin ScoringTypes
    \/ scTodo[c][i].name = "scraper"
         /\ scTodo[c][i].value.type \notin ScrapingTypes

\* C31: the active scoring and scraping types of the current state are keys
\* of its scorers and scrapers maps; a set_config naming an unknown type
\* never swaps its copy in and, once it has left the loop over the
\* parameters, has failed with INVALID_CONFIG_ERROR.
C31_ActiveTypesResolve ==
  /\ cur # 0
       => /\ heap[cur].scoring_type \in DOMAIN heap[cur].scorers
          /\ heap[cur].scraping_type \in DOMAIN heap[cur].scrapers
  /\ \A c \in Calls :
       NamesUnknownType(c)
         => /\ \A i \in 1..Len(scTrace[c]) : scTrace[c][i] # "swap"
            /\ scStaged[c] # cur
            /\ scPc[c] \in {"copying", "setting", "failed"}
            /\ scPc[c] = "failed" => scErr[c] \in {"invalid_config", "copy_error"}

\* a set_config naming the scraping type "bogus" has failed after it had
\* assigned the type on its copy; the current state is untouched
C31_Witness ==
  \E c \in Calls :
    /\ NamesUnknownType(c)
    /\ scPc[c] = "failed" /\ scErr[c] = "invalid_config"
    /\ heap[scStaged[c]].scraping_type = "bogus"
    /\ heap[cur].scraping_type = "timeline"

\* every set_config issued has returned or raised
AllReturned == \A c \in Calls : scPc[c] \in {"idle", "done", "failed"}
\* the parameters the config of a call names
Named(c) == {scTodo[c][k].name : k \in 1..Len(scTodo[c])}

SameValues(c) ==
  \A k \in 1..Len(scTodo[c]) :
    \E i \in 1..Len(ParameterNames) :
      /\ ParameterNames[i] = scTodo[c][k].name
      /\ ConfigOf(heap[scSrc[c]])[i] = scTodo[c][k].value

Committed(c) == \E i \in 1..Len(scTrace[c]) : scTrace[c][i] = "swap"

C35_ScoringNotRecovered ==
  /\ skPc = "transform" => skPos \in skScored
  /\ \A i \in 1..Len(skOut) : skOut[i] \in skScored
  /\ skSkipped \subseteq skScored
  /\ "score" \in skRaised
       => /\ skPc = "failed" /\ skErr = "score"
          /\ ~skLock
          /\ skUp[skPos] \in {"err", "errbad"}
          /\ skPos \notin skSkipped
          /\ \A i \in 1..Len(skOut) : skOut[i] < skPos
  /\ \A p \in 1..Len(skUp) : skUp[p] \in {"err", "errbad"} => skPos <= p

\* a tweet was emitted, then the scoring of a tweet whose conversion would
\* have raised ended the scrap
C35_Witness ==
  /\ skUp = <<"ok", "errbad", "ok">>
  /\ skLimit = NoLimit
  /\ skOut = <<1>>
  /\ skPos = 2
  /\ skPc = "failed" /\ skErr = "score"
  /\ skScored = {1}

\* the threads whose get has returned and whose release has not
Holders == {t \in Threads : mlHeld[t] # 0}

\* C36: under any interleaving of get and release in which no release
\* precedes its matching get, whenever the lock is free reference_count is
\* the number of completed gets minus completed releases, the model is
\* loaded exactly when that count is positive (so it is dropped exactly
\* when the count returns to 0), and every thread holding a model holds the
\* one now loaded (it was loaded once while the count stayed positive); in
\* every state a positive count has a model loaded.
C36_LoaderConsistent ==
  /\ mlCount > 0 => mlModel # 0
  /\ mlLock = 0 =>
       /\ mlCount = Cardinality(Holders)
       /\ (mlModel # 0) <=> (mlCount > 0)
       /\ \A t \in Holders : mlHeld[t] = mlModel

\* two threads hold the model loaded after an earlier one was dropped
C36_Witness ==
  /\ mlLock = 0
  /\ mlCount = 2
  /\ mlLoads = 2
  /\ mlModel = 2

\* C37: for every toxicity x, threshold and alpha in [0, 1], alpha = 1 and
\* threshold = 0 or 1 included, modifier returns a factor without raising,
\* and the factor is 1 when x = 0 and 0 when x = 1.
C37_ModifierTotal ==
  /\ mdPc # "raised"
  /\ mdPc = "returned" /\ mdX = 0 => mdOut = "one"
  /\ mdPc = "returned" /\ mdX = MaxGrid => mdOut = "zero"

\* C38: no tweet of the authenticated user leaves the timeline scraper: no
\* such tweet is handed to _fetch (scored, converted, dropped) or emitted
\* by scrap; such tweets do not count toward the limit, i.e. a scrap that
\* ends normally with fewer items than its limit has used up the timeline;
\* and get_me is requested once by a scrap that reaches the scraper, before
\* the first page request, and never again.
C38_NoOwnTweets ==
  /\ skPc \in {"score", "transform", "yielded"} => skUp[skPos] # "own"
  /\ \A i \in 1..Len(skOut) : skUp[skOut[i]] # "own"
  /\ \A p \in skScored \cup skSkipped : skUp[p] # "own"
  /\ skPc = "done" /\ skLimit # NoLimit /\ Len(skOut) < skLimit
       => skPos > Len(skUp)
  /\ skMe <= 1
  /\ skReqs # << >> => skMe = 1
  /\ skPc \notin {"idle", "done"} => skMe = 1

\* a scrap with limit 1 has passed over a tweet of the user and emitted the
\* tweet behind it
C38_Witness ==
  /\ skPc = "done"
  /\ skLimit = 1
  /\ skMe = 1
  /\ Len(skUp) >= 2
  /\ skUp[1] = "own"
  /\ skOut = <<2>>

\* the ends of the pages of the timeline that carry a next_token
PageEnds == {q \in 1..Len(skUp) : skUp[q] = "break"}

\* the keyword arguments of a request other than the pagination token
Fixed(kwargs) == {p \in kwargs : p[1] # "pagination_token"}

\* the requests made so far follow the pagination: the first one carries no
\* pagination_token, request i + 1 carries the next_token of the page
\* returned to request i, and all carry the time bounds scrap() was called
\* with and the same fields; no page is requested after the one without
\* next_token; an unlimited scrap ends normally only with that page used up
C39_Pages ==
  /\ \A i \in 1..Len(skCalls) :
       /\ Get(skCalls[i], "start_time", NoTime) = skAfter
       /\ Get(skCalls[i], "end_time", NoTime) = skBefore
       /\ Fixed(skCalls[i]) = Fixed(skCalls[1])
       /\ Has(skCalls[i], "expansions") /\ Has(skCalls[i], "tweet_fields")
       /\ IF i = 1
          THEN ~Has(skCalls[i], "pagination_token")
          ELSE LET prev == Get(skCalls[i - 1], "pagination_token", NoToken)
                   tok == Get(skCalls[i], "pagination_token", NoToken)
               IN /\ tok \in PageEnds
                  /\ tok > prev
                  /\ \A q \in PageEnds : q > prev => tok <= q
  /\ Len(skCalls) <= Cardinality(PageEnds) + 1
  /\ skPc = "done" /\ skLimit = NoLimit =>
       /\ skPos > Len(skUp)
       /\ Len(skCalls) = Cardinality(PageEnds) + 1

\* C39: the first page is requested without a pagination token, each later
\* page with exactly the next_token of the page before it and with the same
\* time bounds and fields; no page is requested after the page without
\* next_token; an unlimited scrap ends normally only when that page is used
\* up, and, the timeline having such a page, every unlimited scrap ends.
C39_Pagination ==
  /\ []C39_Pages
  /\ (skLimit = NoLimit /\ skPc = "me")
       ~> (skPc \in {"done", "failed", "cancelled"})

\* an unlimited scrap with both time bounds has requested three pages and
\* ended
C39_Witness ==
  /\ skPc = "done"
  /\ skLimit = NoLimit
  /\ skBefore # NoTime /\ skAfter # NoTime
  /\ Len(skCalls) = 3
  /\ Has(skCalls[3], "pagination_token")

\* C40: when run() has ended, the face was saved and then cleaned up if and
\* only if init_task completed without exception and without being
\* cancelled: a state whose initialisation failed or was interrupted is
\* never saved, and a successfully initialised face is saved on every path
\* by which run() ends, also when server_task ended with an exception.
C40_SavedIffInitialised ==
  /\ rnSaved => InitOk
  /\ rnCleaned => rnSaved
  /\ RunEnded /\ InitOk => rnSaved /\ rnCleaned
====
